---- MODULE Spec2Model ----
(***************************************************************************)
(* Limit-order book of oraiswap_limit_order: the storage layer of          *)
(* state.rs (order rows, tick counters, by-price and by-bidder indexes)    *)
(* and the order lifecycle and matching engine of order.rs (submit_order,  *)
(* cancel_order, excecute_pair) for one registered pair.                   *)
(*                                                                         *)
(* Amounts are Uint128 values; every amount of the model stays far below   *)
(* 2^128, so no width reduction is applied.  cosmwasm's Decimal is a       *)
(* fixed-point number; the model keeps its floor semantics but carries     *)
(* DECIMAL_PLACES = 4 fractional digits instead of 18, because the model   *)
(* checker's integers are 32 bits wide.  FLOATING_ROUND = 3 is below that, *)
(* so tick rounding still discards digits.                                 *)
(***************************************************************************)
EXTENDS Integers, Sequences, FiniteSets, TLC

VARIABLES last_order_id, orderbook, orders, ticks, order_by_price,
          order_by_bidder, rewards, custody, res, other_book, pool_infos

vars == <<last_order_id, orderbook, orders, ticks, order_by_price,
          order_by_bidder, rewards, custody, res, other_book, pool_infos>>

(***************************************************************************)
(* Bounds of the model                                                     *)
(***************************************************************************)
MaxOrders == 3

\* last_order_id of the initial state of SpecLate (a book on which 254
\* orders were submitted and cancelled before)
LateStart == 254

\* last_order_id of the initial state of SpecWorn (a book on which orders
\* were submitted, and all but the last WornOrders of them cancelled,
\* before one matcher call)
WornLast == 104

(***************************************************************************)
(* Program constants                                                       *)
(***************************************************************************)
RELAY_FEE == 300
FLOATING_ROUND == 3
MAX_LIMIT == 30
DEFAULT_LIMIT == 10
DECIMAL_PLACES == 4
DECIMAL_FRACTIONAL == 10 ^ DECIMAL_PLACES
REWARD_WALLET == "orai16stq6f4pnrfpz75n9ujv6qg3czcfa4qyjux5en"
ADMIN_WALLET == "orai1tz8wg6kh5su6602h2tmrpnmjlx83xe388nxkn5"
\* the admin of the contract's config: the tests instantiate with admin: None
\* as addr0000, who then removes the order book
ConfigAdmin == "addr0000"
\* min_quote_coin_amount of the pair created by the tests
MinQuoteCoinAmount == 10

Buy == "Buy"
Sell == "Sell"
Open == "Open"
PartialFilled == "PartialFilled"
Fulfilled == "Fulfilled"

Bidders == {"addr0000", "addr0001"}
Relayers == {"relayer", REWARD_WALLET}
NoLimit == 0
Limits == {NoLimit, 1}

\* the orders traders submit: sender, direction, offer amount, ask amount
Shape(sender, direction, offer, ask) ==
  [sender |-> sender, direction |-> direction, offer |-> offer, ask |-> ask]

\* the orders of the initial book of SpecWorn, in the order of their submits
WornShapes ==
  << Shape("addr0000", Buy, 1000, 1000), Shape("addr0000", Buy, 1000, 1000),
     Shape("addr0000", Sell, 1000, 970), Shape("addr0000", Sell, 1000, 970) >>

OrderShapes ==
  { Shape("addr0000", Buy, 1000, 1000),    \* price 1.000
    Shape("addr0001", Buy, 950, 1000),     \* price 0.950
    Shape("addr0000", Sell, 1000, 970),    \* price 0.970
    Shape("addr0001", Sell, 1000, 995),    \* price 0.995
    Shape("addr0000", Buy, 1050, 100),     \* price 10.500
    Shape("addr0001", Buy, 950, 100) }     \* price 9.500

(***************************************************************************)
(* Uint128 / Decimal arithmetic (floor semantics)                          *)
(***************************************************************************)
Min(a, b) == IF a <= b THEN a ELSE b

\* floor(a * n / d), evaluated without forming a * n
MulDivFloor(a, n, d) == (a \div d) * n + ((a % d) * n) \div d

\* Decimal::from_ratio, as atomics
from_ratio(a, b) == MulDivFloor(a, DECIMAL_FRACTIONAL, b)

\* Uint128 * Decimal
MulDec(a, p) == MulDivFloor(a, p, DECIMAL_FRACTIONAL)

\* (Uint128 * Decimal::one().atomics()).checked_div(p.atomics())
DivDec(a, p) == MulDivFloor(a, DECIMAL_FRACTIONAL, p)

\* Decimal::from_str("0.001"), as atomics
commission_rate == DECIMAL_FRACTIONAL \div 1000

(***************************************************************************)
(* Keys: byte strings and their order                                      *)
(***************************************************************************)
RECURSIVE Digits(_)
\* the ASCII decimal digits of a natural number
Digits(n) == IF n < 10 THEN <<48 + n>>
             ELSE Digits(n \div 10) \o <<48 + (n % 10)>>

RECURSIVE PadDigits(_, _)
\* the last w decimal digits of n, zero padded
PadDigits(n, w) == IF w = 0 THEN <<>>
                   ELSE PadDigits(n \div 10, w - 1) \o <<48 + (n % 10)>>

\* Decimal::to_string_round(digits): whole part, '.', digits fraction digits
to_string_round(p, digits) ==
  Digits(p \div DECIMAL_FRACTIONAL) \o <<46>> \o
  PadDigits((p % DECIMAL_FRACTIONAL) \div (10 ^ (DECIMAL_PLACES - digits)), digits)

RECURSIVE ParseNat(_, _)
ParseNat(s, acc) == IF s = <<>> THEN acc
                    ELSE ParseNat(Tail(s), acc * 10 + (Head(s) - 48))

\* Decimal::from_str of a tick key, as atomics
KeyPrice(k) ==
  LET dot == CHOOSE i \in 1..Len(k) : k[i] = 46
      whole == ParseNat(SubSeq(k, 1, dot - 1), 0)
      frac == ParseNat(SubSeq(k, dot + 1, Len(k)), 0)
  IN whole * DECIMAL_FRACTIONAL + frac * (10 ^ (DECIMAL_PLACES - (Len(k) - dot)))

RECURSIVE LeBytes(_, _)
\* the w low-order bytes of n, least significant first
LeBytes(n, w) == IF w = 0 THEN <<>>
                 ELSE <<n % 256>> \o LeBytes(n \div 256, w - 1)

\* u64::to_le_bytes
to_le_bytes(id) == LeBytes(id, 8)

RECURSIVE LexLess(_, _)
\* byte-wise lexicographic order of the key-value store
LexLess(a, b) ==
  IF b = <<>> THEN FALSE
  ELSE IF a = <<>> THEN TRUE
  ELSE IF Head(a) # Head(b) THEN Head(a) < Head(b)
  ELSE LexLess(Tail(a), Tail(b))

RECURSIVE RangeAscending(_)
\* Bucket::range(None, None, Ascending) over a set of keys
RangeAscending(K) ==
  IF K = {} THEN <<>>
  ELSE LET k == CHOOSE x \in K : \A y \in K \ {x} : LexLess(x, y)
       IN <<k>> \o RangeAscending(K \ {k})

Reverse(s) == [i \in 1..Len(s) |-> s[Len(s) + 1 - i]]

Take(s, n) == SubSeq(s, 1, Min(n, Len(s)))

(***************************************************************************)
(* Key-value helpers                                                       *)
(***************************************************************************)
Put(f, k, v) == [x \in (DOMAIN f) \cup {k} |-> IF x = k THEN v ELSE f[x]]

Del(f, k) == [x \in (DOMAIN f) \ {k} |-> f[x]]

\* ReadonlyBucket::load(..).unwrap_or_default() of a u64
LoadOrDefault(f, k) == IF k \in DOMAIN f THEN f[k] ELSE 0

\* the four buckets store_order and remove_order write
Storage(o, t, p, b) ==
  [orders |-> o, ticks |-> t, order_by_price |-> p, order_by_bidder |-> b]

(***************************************************************************)
(* Order                                                                   *)
(***************************************************************************)
\* Order::get_price: quote per base, as Decimal atomics.  A Buy offers the
\* quote asset and asks the base asset, a Sell the reverse (order.rs
\* 102-106, 451-464, 584-588).
get_price(order) ==
  IF order.direction = Buy
  THEN from_ratio(order.offer_amount, order.ask_amount)
  ELSE from_ratio(order.ask_amount, order.offer_amount)

price_key(order) == to_string_round(get_price(order), FLOATING_ROUND)

lef_offer(order) == order.offer_amount - order.filled_offer_amount

\* variant: the order is stored and indexed but the tick is not counted
store_order_uncounted(st, order, inserted) ==
  Storage(Put(st.orders, order.order_id, order), st.ticks,
          st.order_by_price \cup {<<price_key(order), order.order_id>>},
          st.order_by_bidder \cup {<<order.bidder_addr, order.order_id>>})

store_order(st, order, inserted) ==
  LET k == price_key(order)
      total_tick_orders ==
        LoadOrDefault(st.ticks, k) + (IF inserted THEN 1 ELSE 0)
  IN Storage(Put(st.orders, order.order_id, order),
             Put(st.ticks, k, total_tick_orders),
             st.order_by_price \cup {<<k, order.order_id>>},
             st.order_by_bidder \cup {<<order.bidder_addr, order.order_id>>})

remove_order(st, order) ==
  LET k == price_key(order)
      total_tick_orders == LoadOrDefault(st.ticks, k)
  IN Storage(Del(st.orders, order.order_id),
             IF total_tick_orders > 0
             THEN IF total_tick_orders - 1 > 0
                  THEN Put(st.ticks, k, total_tick_orders - 1)
                  ELSE Del(st.ticks, k)
             ELSE st.ticks,
             st.order_by_price \ {<<k, order.order_id>>},
             st.order_by_bidder \ {<<order.bidder_addr, order.order_id>>})

\* Order::fill_order: the updated in-memory order and the storage after it
\* was persisted (removed when Fulfilled)
fill_order(st, order, ask_amount, offer_amount) ==
  LET fa == order.filled_ask_amount + ask_amount
      fo == order.filled_offer_amount + offer_amount
      o2 == [order EXCEPT
               !.filled_ask_amount = fa,
               !.filled_offer_amount = fo,
               !.status = IF fo = order.offer_amount \/ fa = order.ask_amount
                          THEN Fulfilled ELSE PartialFilled]
  IN [order |-> o2,
      st |-> IF o2.status = Fulfilled THEN remove_order(st, o2)
             ELSE store_order(st, o2, FALSE)]

(***************************************************************************)
(* Reading the book                                                        *)
(***************************************************************************)
\* limit.unwrap_or(DEFAULT_LIMIT).min(MAX_LIMIT)
EffLimit(limit) == Min(IF limit = NoLimit THEN DEFAULT_LIMIT ELSE limit, MAX_LIMIT)

\* the order ids of an index namespace in the order a range scan yields
\* them: ascending byte order of their 8-byte little-endian keys
IndexScan(ids) ==
  LET keys == RangeAscending({to_le_bytes(i) : i \in ids})
  IN [n \in 1..Len(keys) |-> CHOOSE i \in ids : to_le_bytes(i) = keys[n]]

RECURSIVE LoadOrders(_, _, _, _)
\* rows of the scanned ids that have the direction, at most n of them;
\* a scanned id without an order row is a read error
LoadOrders(st, ids, direction, n) ==
  IF n = 0 \/ ids = <<>> THEN [ok |-> TRUE, list |-> <<>>]
  ELSE IF Head(ids) \notin DOMAIN st.orders THEN [ok |-> FALSE, list |-> <<>>]
  ELSE LET o == st.orders[Head(ids)]
           rest == LoadOrders(st, Tail(ids), direction,
                              IF o.direction = direction THEN n - 1 ELSE n)
       IN IF o.direction = direction
          THEN [ok |-> rest.ok, list |-> <<o>> \o rest.list]
          ELSE rest

\* OrderBook::find_match_orders
find_match_orders(st, price, direction, limit) ==
  LET k == to_string_round(price, FLOATING_ROUND)
      ids == {p[2] : p \in {q \in st.order_by_price : q[1] = k}}
  IN LoadOrders(st, IndexScan(ids), direction, EffLimit(limit))

\* the tick keys with a non-zero counter at which an order of the direction
\* is indexed
TickKeys(st, direction) ==
  {k \in DOMAIN st.ticks :
     /\ st.ticks[k] > 0
     /\ \E i \in DOMAIN st.orders :
          /\ <<k, i>> \in st.order_by_price
          /\ st.orders[i].direction = direction}

\* OrderBook::find_list_match_price: buy ticks in descending, sell ticks in
\* ascending key order, each capped at the limit
find_list_match_price(st, limit) ==
  LET buys == Reverse(RangeAscending(TickKeys(st, Buy)))
      sells == RangeAscending(TickKeys(st, Sell))
      bl == Take(buys, EffLimit(limit))
      sl == Take(sells, EffLimit(limit))
  IN [best_buy_price_list |-> [i \in 1..Len(bl) |-> KeyPrice(bl[i])],
      best_sell_price_list |-> [i \in 1..Len(sl) |-> KeyPrice(sl[i])]]

(***************************************************************************)
(* The matching engine (excecute_pair)                                     *)
(***************************************************************************)
NoReward == [base |-> 0, quote |-> 0]

\* process_reward: the stored Executor row, or a new one with zero amounts
process_reward(rw, address) ==
  IF address \in DOMAIN rw THEN rw[address] ELSE NoReward

\* the orders of the direction at the tick of `order` that are older than
\* it, still stored with remaining offer, and were not filled against the
\* counter-order `other` earlier in this call
OlderLive(m, order, other) ==
  {i \in DOMAIN m.st.orders :
     /\ i < order.order_id
     /\ m.st.orders[i].direction = order.direction
     /\ price_key(m.st.orders[i]) = price_key(order)
     /\ lef_offer(m.st.orders[i]) > 0
     /\ ~\E n \in 1..Len(m.fills) :
           /\ m.fills[n].call_other[order.direction] = other.order_id
           /\ m.fills[n].call_self[order.direction] = i}

\* variant: the two branches of the id comparison exchanged
MatchPriceSwapped(buy_order, sell_order, match_one_price) ==
  IF match_one_price = FALSE
  THEN IF sell_order.order_id < buy_order.order_id
       THEN get_price(sell_order)
       ELSE get_price(buy_order)
  ELSE get_price(buy_order)

\* variant: the sell order's price whatever the ids
MatchPriceOfSell(buy_order, sell_order, match_one_price) ==
  IF match_one_price = FALSE
  THEN get_price(sell_order)
  ELSE get_price(buy_order)

\* order.rs 418, 444-450: the price of one pairwise fill
MatchPrice(buy_order, sell_order, match_one_price) ==
  IF match_one_price = FALSE
  THEN IF sell_order.order_id < buy_order.order_id
       THEN get_price(buy_order)
       ELSE get_price(sell_order)
  ELSE get_price(buy_order)

\* order.rs 577-634: the dust promotion after the two fills, and what the
\* iteration leaves behind: storage, the two in-memory orders, the two
\* Executors, the payment lists
SweepDust(m, b, s, fill, fs, fb, sell_dust, buy_dust) ==
  LET sell2 == IF sell_dust THEN [fs.order EXCEPT !.status = Fulfilled] ELSE fs.order
      buy2 == IF buy_dust THEN [fb.order EXCEPT !.status = Fulfilled] ELSE fb.order
      st_s == IF sell_dust THEN remove_order(fb.st, sell2) ELSE fb.st
      sell_sweep == IF sell_dust
                    THEN <<[order_id |-> sell2.order_id, asset |-> "base",
                            amount |-> lef_offer(sell2)]>>
                    ELSE <<>>
      buy_sweep == IF buy_dust
                   THEN <<[order_id |-> buy2.order_id, asset |-> "quote",
                           amount |-> lef_offer(buy2)]>>
                   ELSE <<>>
  IN [m EXCEPT
        !.st = IF buy_dust THEN remove_order(st_s, buy2) ELSE st_s,
        !.buys[b] = buy2,
        !.sells[s] = sell2,
        !.reward = [base |-> @.base + fill.reward_fee.base
                               + (IF sell_dust THEN lef_offer(sell2) ELSE 0),
                    quote |-> @.quote + fill.reward_fee.quote
                               + (IF buy_dust THEN lef_offer(buy2) ELSE 0)],
        !.relayer = [base |-> @.base + fill.relayer_fee.base,
                     quote |-> @.quote + fill.relayer_fee.quote],
        !.list_asker = IF fill.payout.quote # 0
                       THEN Append(@, [address |-> sell2.bidder_addr,
                                       amount |-> fill.payout.quote])
                       ELSE @,
        !.list_bidder = IF fill.payout.base # 0
                        THEN Append(@, [address |-> buy2.bidder_addr,
                                        amount |-> fill.payout.base])
                        ELSE @,
        !.fills = Append(@, [fill EXCEPT !.buy_after = buy2, !.sell_after = sell2,
                                         !.buy_swept = buy_dust,
                                         !.sell_swept = sell_dust]),
        !.sweeps = @ \o sell_sweep \o buy_sweep]

\* variant: the relayer fee is not capped by what the commission left
LegFeesUncapped(amount, relay) ==
  LET reward_fee == Min(MulDec(amount, commission_rate), amount)
  IN [reward_fee |-> reward_fee,
      relayer_fee |-> relay,
      payout |-> amount - reward_fee - relay]

\* order.rs 479-522, 533-575: reward_fee, relayer_fee and the payout of
\* one leg, whose relayer fee before capping is relay
LegFees(amount, relay) ==
  LET reward_fee == Min(MulDec(amount, commission_rate), amount)
  IN [reward_fee |-> reward_fee,
      relayer_fee |-> Min(relay, amount - reward_fee),
      payout |-> amount - reward_fee - Min(relay, amount - reward_fee)]

\* variant: the buy order is tested by the base value of its remainder
SettleByAskValue(m, b, s, fill, fs, fb) ==
  SweepDust(m, b, s, fill, fs, fb,
    lef_offer(fs.order) > 0
      /\ (MulDec(lef_offer(fs.order), fill.match_price) < m.min_quote_coin_amount
          \/ MulDec(lef_offer(fs.order), fill.match_price) = 0),
    lef_offer(fb.order) > 0
      /\ (DivDec(lef_offer(fb.order), fill.match_price) < m.min_quote_coin_amount
          \/ DivDec(lef_offer(fb.order), fill.match_price) = 0))

\* order.rs 577-598: the remainders after the two fills and the two dust
\* tests
Settle(m, b, s, fill, fs, fb) ==
  SweepDust(m, b, s, fill, fs, fb,
    lef_offer(fs.order) > 0
      /\ (MulDec(lef_offer(fs.order), fill.match_price) < m.min_quote_coin_amount
          \/ MulDec(lef_offer(fs.order), fill.match_price) = 0),
    lef_offer(fb.order) > 0
      /\ (lef_offer(fb.order) < m.min_quote_coin_amount
          \/ DivDec(lef_offer(fb.order), fill.match_price) = 0))

\* order.rs 472-531: the sell order filled, then the buy order
FillBoth(m, b, s, fill, fs) ==
  Settle(m, b, s, fill, fs,
         fill_order(fs.st, m.buys[b], fill.sell_offer_amount, fill.sell_ask_amount))

\* what one pairwise fill was: the orders, the tick pair of the loops, the
\* price, the amounts and the fees of the two legs
FillRecord(m, buy_order, sell_order, ctx, match_price, sell_ask_amount, sell_offer_amount, quote_leg, base_leg) ==
  [buy |-> buy_order.order_id, sell |-> sell_order.order_id,
   call_self |-> [d \in {Buy, Sell} |->
      IF d = Buy THEN buy_order.order_id ELSE sell_order.order_id],
   call_other |-> [d \in {Buy, Sell} |->
      IF d = Buy THEN sell_order.order_id ELSE buy_order.order_id],
   buy_tick |-> ctx.buy_price, sell_tick |-> ctx.sell_price,
   match_one_price |-> ctx.match_one_price,
   match_price |-> match_price,
   buy_price |-> get_price(buy_order),
   sell_price |-> get_price(sell_order),
   buy_key |-> price_key(buy_order),
   sell_key |-> price_key(sell_order),
   sell_ask_amount |-> sell_ask_amount,
   sell_offer_amount |-> sell_offer_amount,
   reward_fee |-> [base |-> base_leg.reward_fee, quote |-> quote_leg.reward_fee],
   relayer_fee |-> [base |-> base_leg.relayer_fee, quote |-> quote_leg.relayer_fee],
   payout |-> [base |-> base_leg.payout, quote |-> quote_leg.payout],
   buy_stored |-> buy_order.order_id \in DOMAIN m.st.orders,
   sell_stored |-> sell_order.order_id \in DOMAIN m.st.orders,
   older_buys |-> OlderLive(m, buy_order, sell_order),
   older_sells |-> OlderLive(m, sell_order, buy_order),
   buy_before |-> buy_order, sell_before |-> sell_order,
   buy_after |-> buy_order, sell_after |-> sell_order,
   buy_swept |-> FALSE, sell_swept |-> FALSE]

\* variant: the orders are filled whatever the amounts
NoAmount(sell_ask_amount, sell_offer_amount) == FALSE

\* order.rs 465: sell_ask_asset.amount.is_zero() || sell_offer_amount.is_zero()
ZeroAmount(sell_ask_amount, sell_offer_amount) ==
  sell_ask_amount = 0 \/ sell_offer_amount = 0

\* a pair of orders the loop passed over, with the price it had for them
SkipRecord(buy_order, sell_order, match_price) ==
  [buy |-> buy_order, sell |-> sell_order, match_price |-> match_price]

\* order.rs 465-531: the loop continues with the next sell order when either
\* amount is zero
MatchAmounts(m, b, s, ctx, match_price, sell_ask_amount, sell_offer_amount) ==
  IF ZeroAmount(sell_ask_amount, sell_offer_amount)
  THEN [m EXCEPT !.skips = Append(@, SkipRecord(m.buys[b], m.sells[s], match_price))]
  ELSE FillBoth(m, b, s,
         FillRecord(m, m.buys[b], m.sells[s], ctx, match_price,
                    sell_ask_amount, sell_offer_amount,
                    LegFees(sell_ask_amount, MulDec(RELAY_FEE, match_price)),
                    LegFees(sell_offer_amount, RELAY_FEE)),
         fill_order(m.st, m.sells[s], sell_ask_amount, sell_offer_amount))

\* order.rs 451-467: sell_offer_amount from sell_ask_amount
MatchAsk(m, b, s, ctx, match_price, sell_ask_amount) ==
  MatchAmounts(m, b, s, ctx, match_price, sell_ask_amount,
               Min(DivDec(sell_ask_amount, match_price), lef_offer(m.sells[s])))

\* order.rs 451-467: sell_ask_amount at the match price
MatchAt(m, b, s, ctx, match_price) ==
  MatchAsk(m, b, s, ctx, match_price,
           Min(lef_offer(m.buys[b]), MulDec(lef_offer(m.sells[s]), match_price)))

\* order.rs 421-634: one iteration of the loop over match_sell_orders, for
\* the buy order at index b and the sell order at index s
MatchPair(m, b, s, ctx) ==
  IF lef_offer(m.sells[s]) = 0 \/ m.sells[s].status = Fulfilled
  THEN IF m.sells[s].order_id \in DOMAIN m.st.orders
       THEN [m EXCEPT !.st = remove_order(m.st, m.sells[s]),
                      !.stuff = Append(m.stuff, m.sells[s].order_id)]
       ELSE m
  ELSE MatchAt(m, b, s, ctx, MatchPrice(m.buys[b], m.sells[s], ctx.match_one_price))

RECURSIVE SellOrdersLoop(_, _, _, _)
\* order.rs 421: for sell_order in &mut match_sell_orders
SellOrdersLoop(m, b, s, ctx) ==
  IF s > Len(m.sells) THEN m
  ELSE SellOrdersLoop(MatchPair(m, b, s, ctx), b, s + 1, ctx)

RECURSIVE BuyOrdersLoop(_, _, _)
\* order.rs 398-640: for buy_order in &mut match_buy_orders
BuyOrdersLoop(m, b, ctx) ==
  IF b > Len(m.buys) THEN m
  ELSE LET buy_order == m.buys[b]
       IN IF lef_offer(buy_order) = 0 \/ buy_order.status = Fulfilled
          THEN BuyOrdersLoop(
                 IF buy_order.order_id \in DOMAIN m.st.orders
                 THEN [m EXCEPT !.st = remove_order(m.st, buy_order),
                                !.stuff = Append(m.stuff, buy_order.order_id)]
                 ELSE m,
                 b + 1, ctx)
          ELSE BuyOrdersLoop(SellOrdersLoop(m, b, 1, ctx), b + 1, ctx)

\* variant: the inner loop never stops early
CrossesAlways(buy_price, sell_price) == TRUE

\* order.rs 383-385: the inner loop stops at the first sell tick above the
\* buy tick
Crosses(buy_price, sell_price) == ~(buy_price < sell_price)

RECURSIVE SellPricesLoop(_, _, _, _)
\* order.rs 382-641: for sell_price in &best_sell_price_list
SellPricesLoop(m, buy_price, si, c) ==
  IF m.err \/ si > Len(c.best_sell_price_list) THEN m
  ELSE LET sell_price == c.best_sell_price_list[si]
       IN IF ~Crosses(buy_price, sell_price) THEN m
          ELSE LET found == find_match_orders(m.st, sell_price, Sell, c.limit)
                   ctx == [buy_price |-> buy_price, sell_price |-> sell_price,
                           match_one_price |-> (buy_price = sell_price)]
               IN IF ~found.ok THEN [m EXCEPT !.err = TRUE]
                  ELSE SellPricesLoop(
                         BuyOrdersLoop([m EXCEPT !.sells = found.list], 1, ctx),
                         buy_price, si + 1, c)

RECURSIVE BuyPricesLoop(_, _, _)
\* order.rs 375-642: for buy_price in &best_buy_price_list
BuyPricesLoop(m, bi, c) ==
  IF m.err \/ bi > Len(c.best_buy_price_list) THEN m
  ELSE LET buy_price == c.best_buy_price_list[bi]
           found == find_match_orders(m.st, buy_price, Buy, c.limit)
       IN IF ~found.ok THEN [m EXCEPT !.err = TRUE]
          ELSE BuyPricesLoop(
                 SellPricesLoop([m EXCEPT !.buys = found.list], buy_price, 1, c),
                 bi + 1, c)

\* variant: every payment of a list stays a payment of its own
CoalesceNone(list, acc) == acc \o list

RECURSIVE Coalesce(_, _)
\* transfer_to_trader: one payment per address, amounts added, in the order
\* of first occurrence
Coalesce(list, acc) ==
  IF list = <<>> THEN acc
  ELSE LET p == Head(list)
       IN IF \E i \in 1..Len(acc) : acc[i].address = p.address
          THEN Coalesce(Tail(list),
                 [i \in 1..Len(acc) |->
                    IF acc[i].address = p.address
                    THEN [acc[i] EXCEPT !.amount = @ + p.amount]
                    ELSE acc[i]])
          ELSE Coalesce(Tail(list), Append(acc, p))

Transfer(to, asset, amount) == [to |-> to, asset |-> asset, amount |-> amount]

transfer_to_trader(list_bidder, list_asker) ==
  LET minimalist_asker == Coalesce(list_asker, <<>>)
      minimalist_bidder == Coalesce(list_bidder, <<>>)
  IN [i \in 1..Len(minimalist_asker) |->
        Transfer(minimalist_asker[i].address, "quote", minimalist_asker[i].amount)]
     \o
     [i \in 1..Len(minimalist_bidder) |->
        Transfer(minimalist_bidder[i].address, "base", minimalist_bidder[i].amount)]

\* order.rs 250, 263: the accrued amount from which a reward slot is paid out
REWARD_PAYOUT == 1000000

\* transfer_reward: the messages, and the two Executors after the slots
\* that reached the threshold were paid out
transfer_reward(reward, reward_addr, relayer, relayer_addr) ==
  LET pays(e, a) == e[a] >= REWARD_PAYOUT
      msg(e, addr, a) == IF pays(e, a) THEN <<Transfer(addr, a, e[a])>> ELSE <<>>
      rest(e) == [a \in {"base", "quote"} |-> IF pays(e, a) THEN 0 ELSE e[a]]
  IN [messages |-> msg(reward, reward_addr, "base") \o msg(relayer, relayer_addr, "base")
                   \o msg(reward, reward_addr, "quote") \o msg(relayer, relayer_addr, "quote"),
      reward |-> [base |-> rest(reward)["base"], quote |-> rest(reward)["quote"]],
      relayer |-> [base |-> rest(relayer)["base"], quote |-> rest(relayer)["quote"]]]

\* store_reward(reward) followed by store_reward(relayer)
store_rewards(rw, reward_addr, reward, relayer_addr, relayer) ==
  Put(Put(rw, reward_addr, reward), relayer_addr, relayer)

\* order.rs 644-648: the payments, the reward payouts and the two stores
\* that end excecute_pair
Finish(rw, relayer_addr, m, paid, prices) ==
  [ok |-> ~m.err,
   st |-> m.st,
   rewards |-> store_rewards(rw, REWARD_WALLET, paid.reward,
                             relayer_addr, paid.relayer),
   messages |-> transfer_to_trader(m.list_bidder, m.list_asker) \o paid.messages,
   fills |-> m.fills, sweeps |-> m.sweeps, stuff |-> m.stuff,
   skips |-> m.skips, prices |-> prices]

Matched(rw, relayer_addr, m, prices) ==
  Finish(rw, relayer_addr, m,
         transfer_reward(m.reward, REWARD_WALLET, m.relayer, relayer_addr),
         prices)

\* order.rs 340-375: the state of the call before the loops
Start(st, rw, min_quote, relayer_addr) ==
  [st |-> st,
   min_quote_coin_amount |-> min_quote,
   reward |-> process_reward(rw, REWARD_WALLET),
   relayer |-> process_reward(rw, relayer_addr),
   list_bidder |-> <<>>, list_asker |-> <<>>,
   fills |-> <<>>, sweeps |-> <<>>, stuff |-> <<>>, skips |-> <<>>,
   buys |-> <<>>, sells |-> <<>>, err |-> FALSE]

PriceLists(st, rw, min_quote, relayer_addr, limit, prices) ==
  Matched(rw, relayer_addr,
          BuyPricesLoop(Start(st, rw, min_quote, relayer_addr), 1,
                        [best_buy_price_list |-> prices.best_buy_price_list,
                         best_sell_price_list |-> prices.best_sell_price_list,
                         limit |-> limit]),
          prices)

\* the whole of excecute_pair on the storage st and the Executor rows rw
excecute_pair(st, rw, min_quote, relayer_addr, limit) ==
  PriceLists(st, rw, min_quote, relayer_addr, limit,
             find_list_match_price(st, limit))

(***************************************************************************)
(* Operations                                                              *)
(***************************************************************************)
NoOrder == [order_id |-> 0]

CurrentStorage == Storage(orders, ticks, order_by_price, order_by_bidder)

\* the result of the last call: what it returned and what it emitted
Result(op, ok, sender, order, messages, detail) ==
  [op |-> op, ok |-> ok, sender |-> sender, order |-> order,
   messages |-> messages, detail |-> detail, pair |-> "pair", error |-> ""]

NoDetail == [fills |-> <<>>, sweeps |-> <<>>, stuff |-> <<>>, skips |-> <<>>,
             rewards_before |-> <<>>, limit |-> NoLimit, before |-> <<>>]

\* the result of a call that returned the ContractError error
Failure(op, sender, order, error) ==
  [Result(op, FALSE, sender, order, <<>>, NoDetail) EXCEPT !.error = error]

\* the result of a call on the second pair
OtherResult(op, ok, sender, order, messages) ==
  [Result(op, ok, sender, order, messages, NoDetail) EXCEPT !.pair = "other"]

SetStorage(st) ==
  /\ orders' = st.orders
  /\ ticks' = st.ticks
  /\ order_by_price' = st.order_by_price
  /\ order_by_bidder' = st.order_by_bidder

RECURSIVE Paid(_, _)
\* the total of the transfers in an asset
Paid(messages, asset) ==
  IF messages = <<>> THEN 0
  ELSE (IF Head(messages).asset = asset THEN Head(messages).amount ELSE 0)
       + Paid(Tail(messages), asset)

\* the asset an order offers and the engine holds for it
offer_asset(direction) == IF direction = Buy THEN "quote" ELSE "base"

\* the ids the specification that holds last_order_id n explores: from the
\* first id that may have an order to the last id it submits
FirstId(n) ==
  IF n >= LateStart THEN LateStart + 1
  ELSE IF n >= WornLast THEN WornLast + 1 - Len(WornShapes)
  ELSE 1

LastId(n) ==
  IF n >= LateStart THEN LateStart + MaxOrders
  ELSE IF n >= WornLast THEN WornLast + MaxOrders
  ELSE MaxOrders

\* variant: the counter left as it is
last_order_id_kept(v) == v

\* state.rs 19-21: the singleton counter, shared by all pairs
increase_last_order_id(v) == v + 1

\* the order submit_order stores for a shape under an id
NewOrder(shape, order_id) ==
  [order_id |-> order_id, direction |-> shape.direction,
   bidder_addr |-> shape.sender, offer_amount |-> shape.offer,
   ask_amount |-> shape.ask, filled_offer_amount |-> 0,
   filled_ask_amount |-> 0, status |-> Open]

\* the state of a pair whose orderbook row was removed or never created: no
\* row, written as a record without minimum so that every state of
\* orderbook is a record
NoOrderBook == [min_quote_coin_amount |-> 0, row |-> FALSE]

\* variant: every pair passes for registered
RegisteredAlways(ob) == TRUE

\* read_orderbook(storage, pair_key) finds the row of the pair
Registered(ob) == ob # NoOrderBook

\* variant: only the asked amount is tested
AskIsZero(shape) == shape.ask = 0

\* order.rs 39: one of the two amounts of the order is zero
AssetIsZero(shape) == shape.offer = 0 \/ shape.ask = 0

\* submit_order, with the deposit of the offered amount made by the same
\* transaction; res keeps the storage and the custody the call started from.
\* The contract's handler reads the order book of the pair before it calls
\* submit_order (PairNotFound).
SubmitOrder(shape) ==
  /\ last_order_id < LastId(last_order_id)
  /\ IF ~Registered(orderbook)
     THEN /\ res' = Failure("submit_order", shape.sender, NoOrder, "NotFound")
          /\ UNCHANGED <<last_order_id, orderbook, orders, ticks, order_by_price,
                         order_by_bidder, rewards, custody>>
     ELSE IF AssetIsZero(shape)
     THEN /\ res' = Failure("submit_order", shape.sender, NoOrder, "AssetMustNotBeZero")
          /\ UNCHANGED <<last_order_id, orderbook, orders, ticks, order_by_price,
                         order_by_bidder, rewards, custody>>
     ELSE LET order_id == increase_last_order_id(last_order_id)
              order == NewOrder(shape, order_id)
          IN /\ last_order_id' = order_id
             /\ SetStorage(store_order(CurrentStorage, order, TRUE))
             /\ custody' = [custody EXCEPT
                              ![offer_asset(shape.direction)] = @ + shape.offer]
             /\ res' = Result("submit_order", TRUE, shape.sender, order, <<>>,
                               [NoDetail EXCEPT !.before =
                                  [st |-> CurrentStorage, custody |-> custody]])
             /\ UNCHANGED <<orderbook, rewards>>

\* variant: the refund in the asset the order asks for
refund_asset_asked(direction) == IF direction = Buy THEN "base" ELSE "quote"

\* order.rs 102-108: the asset cancel_order refunds
refund_asset(direction) == IF direction = Buy THEN "quote" ELSE "base"

\* order.rs 100-117: the refund messages of cancel_order
refund_messages(order) ==
  LET left_offer_amount == order.offer_amount - order.filled_offer_amount
  IN IF left_offer_amount > 0
     THEN <<Transfer(order.bidder_addr, refund_asset(order.direction),
                     left_offer_amount)>>
     ELSE <<>>

\* variant: no check of the sender
UnauthorizedNever(order, sender) == FALSE

\* order.rs 95-97: the sender is not the order's bidder
Unauthorized(order, sender) == order.bidder_addr # sender

\* cancel_order; a failed call leaves in res the sender and the id it was
\* called with
CancelOrder(sender, order_id) ==
  IF ~Registered(orderbook) \/ order_id \notin DOMAIN orders
  THEN /\ res' = Failure("cancel_order", sender, [order_id |-> order_id],
                         "NotFound")
       /\ UNCHANGED <<last_order_id, orderbook, orders, ticks, order_by_price,
                      order_by_bidder, rewards, custody>>
  ELSE LET order == orders[order_id]
       IN IF Unauthorized(order, sender)
          THEN /\ res' = Failure("cancel_order", sender,
                                 [order_id |-> order_id], "Unauthorized")
               /\ UNCHANGED <<last_order_id, orderbook, orders, ticks,
                              order_by_price, order_by_bidder, rewards, custody>>
          ELSE LET messages == refund_messages(order)
               IN /\ SetStorage(remove_order(CurrentStorage, order))
                  /\ custody' = [a \in {"base", "quote"} |->
                                   custody[a] - Paid(messages, a)]
                  /\ res' = Result("cancel_order", TRUE, sender, order, messages,
                                   NoDetail)
                  /\ UNCHANGED <<last_order_id, orderbook, rewards>>

\* what excecute_pair, called by sender on the Executor rows rw, returned
ExecuteResult(sender, limit, rw, r) ==
  Result("execute_orderbook_pair", TRUE, sender, NoOrder, r.messages,
         [fills |-> r.fills, sweeps |-> r.sweeps, stuff |-> r.stuff,
          skips |-> r.skips,
          rewards_before |-> <<process_reward(rw, REWARD_WALLET),
                               process_reward(rw, sender)>>,
          limit |-> limit, before |-> <<>>])

ExecutePair(sender, limit) ==
  IF ~Registered(orderbook)
  THEN /\ res' = Failure("execute_orderbook_pair", sender, NoOrder, "NotFound")
       /\ UNCHANGED <<last_order_id, orderbook, orders, ticks, order_by_price,
                      order_by_bidder, rewards, custody>>
  ELSE
  \E r \in {excecute_pair(CurrentStorage, rewards, orderbook.min_quote_coin_amount,
                          sender, limit)} :
     IF ~r.ok
     THEN /\ res' = Failure("execute_orderbook_pair", sender, NoOrder,
                            "NotFound")
          /\ UNCHANGED <<last_order_id, orderbook, orders, ticks, order_by_price,
                         order_by_bidder, rewards, custody>>
     ELSE /\ SetStorage(r.st)
          /\ rewards' = r.rewards
          /\ custody' = [a \in {"base", "quote"} |->
                           custody[a] - Paid(r.messages, a)]
          /\ res' = ExecuteResult(sender, limit, rewards, r)
          /\ UNCHANGED <<last_order_id, orderbook>>

\* remove_pair: the admin of the config removes the orderbook row; the
\* response carries attributes only
RemovePair(sender) ==
  IF sender # ConfigAdmin
  THEN /\ res' = Failure("remove_orderbook_pair", sender, NoOrder, "Unauthorized")
       /\ UNCHANGED <<last_order_id, orderbook, orders, ticks, order_by_price,
                      order_by_bidder, rewards, custody>>
  ELSE /\ orderbook' = NoOrderBook
       /\ res' = Result("remove_orderbook_pair", TRUE, sender, NoOrder, <<>>,
                         [NoDetail EXCEPT !.before =
                            [st |-> CurrentStorage, custody |-> custody]])
       /\ UNCHANGED <<last_order_id, orders, ticks, order_by_price,
                      order_by_bidder, rewards, custody>>

\* variant: every sender passes for the admin
NotAdminNever(sender) == FALSE

\* order.rs 158-160: the sender is not the hard-coded admin
NotAdmin(sender) == sender # ADMIN_WALLET

\* remove_stuff_order: the order book and the order are read before the
\* sender is compared with ADMIN_WALLET; the order is removed without refund
RemoveStuffOrder(sender, order_id) ==
  IF ~Registered(orderbook) \/ order_id \notin DOMAIN orders
  THEN /\ res' = Failure("remove_stuff_order", sender, [order_id |-> order_id],
                         "NotFound")
       /\ UNCHANGED <<last_order_id, orderbook, orders, ticks, order_by_price,
                      order_by_bidder, rewards, custody>>
  ELSE IF NotAdmin(sender)
  THEN /\ res' = Failure("remove_stuff_order", sender, [order_id |-> order_id],
                         "Unauthorized")
       /\ UNCHANGED <<last_order_id, orderbook, orders, ticks, order_by_price,
                      order_by_bidder, rewards, custody>>
  ELSE /\ SetStorage(remove_order(CurrentStorage, orders[order_id]))
       /\ res' = Result("remove_stuff_order", TRUE, sender, orders[order_id],
                         <<>>, NoDetail)
       /\ UNCHANGED <<last_order_id, orderbook, rewards, custody>>

\* remove_tick: the counter of the tick of a price is deleted
remove_tick(t, direction, price) == Del(t, to_string_round(price, FLOATING_ROUND))

\* execute_remove_price
RemovePrice(sender, direction, price) ==
  IF NotAdmin(sender)
  THEN /\ res' = Failure("execute_remove_price", sender, NoOrder, "Unauthorized")
       /\ UNCHANGED <<last_order_id, orderbook, orders, ticks, order_by_price,
                      order_by_bidder, rewards, custody>>
  ELSE /\ ticks' = remove_tick(ticks, direction, price)
       /\ res' = Result("execute_remove_price", TRUE, sender, NoOrder, <<>>,
                         NoDetail)
       /\ UNCHANGED <<last_order_id, orderbook, orders, order_by_price,
                      order_by_bidder, rewards, custody>>

\* the rows under the status prefix: store_order writes none
order_by_status == {}

\* remove_status: the row of an id under a status is deleted
remove_status(rows, order_id, status) == rows \ {<<status, order_id>>}

\* execute_remove_status
RemoveStatus(sender, order_id, status) ==
  IF NotAdmin(sender)
  THEN /\ res' = Failure("execute_remove_status", sender,
                         [order_id |-> order_id], "Unauthorized")
       /\ UNCHANGED <<last_order_id, orderbook, orders, ticks, order_by_price,
                      order_by_bidder, rewards, custody>>
  ELSE /\ remove_status(order_by_status, order_id, status) = {}
       /\ res' = Result("execute_remove_status", TRUE, sender,
                         [order_id |-> order_id], <<>>, NoDetail)
       /\ UNCHANGED <<last_order_id, orderbook, orders, ticks, order_by_price,
                      order_by_bidder, rewards, custody>>

\* a call with asset_infos that are the key of no order book
\* (contract_test.rs 3080-3099): read_orderbook fails first
UnknownPair(op, sender, order) ==
  /\ res' = [Failure(op, sender, order, "NotFound") EXCEPT !.pair = "unknown"]
  /\ UNCHANGED <<last_order_id, orderbook, orders, ticks, order_by_price,
                 order_by_bidder, rewards, custody>>

(***************************************************************************)
(* Staking contract: pools and their staking tokens                        *)
(***************************************************************************)
\* config.owner of the staking contract (deprecate_test.rs 23)
Owner == "owner"

\* migration_params: None
NoMigration == <<>>

\* the pool_info bucket without rows
NoPools == [x \in {} |-> NoMigration]

\* store_pool_info
StorePool(asset, pool_info) ==
  pool_infos' = Put(pool_infos, asset, pool_info)

\* a staking call that failed with an error, on an asset and with a token
StakingFailure(op, sender, asset, token, error) ==
  Failure(op, sender, [asset |-> asset, token |-> token], error)

StakingResult(op, sender, asset, token) ==
  Result(op, TRUE, sender, [asset |-> asset, token |-> token], <<>>, NoDetail)

\* what the staking contract leaves alone
BookUnchanged ==
  UNCHANGED <<last_order_id, orderbook, orders, ticks, order_by_price,
              order_by_bidder, rewards, custody, other_book>>

\* register_asset
RegisterAsset(sender, asset, staking_token) ==
  /\ BookUnchanged
  /\ IF Owner # sender
     THEN /\ res' = StakingFailure("register_asset", sender, asset, staking_token,
                                   "unauthorized")
          /\ UNCHANGED pool_infos
     ELSE IF asset \in DOMAIN pool_infos
     THEN /\ res' = StakingFailure("register_asset", sender, asset, staking_token,
                                   "Asset was already registered")
          /\ UNCHANGED pool_infos
     ELSE /\ StorePool(asset, [staking_token |-> staking_token,
                                total_bond_amount |-> 0, reward_index |-> 0,
                                pending_reward |-> 0,
                                migration_params |-> NoMigration])
          /\ res' = StakingResult("register_asset", sender, asset, staking_token)

\* variant: the bonded total is kept
deprecate_keeping_bond(pool_info, new_staking_token) ==
  [pool_info EXCEPT
     !.migration_params = [index_snapshot |-> pool_info.reward_index,
                           deprecated_staking_token |-> pool_info.staking_token],
     !.staking_token = new_staking_token]

\* contract.rs 234-239: the pool after its staking token was deprecated
deprecate(pool_info, new_staking_token) ==
  [pool_info EXCEPT
     !.total_bond_amount = 0,
     !.migration_params = [index_snapshot |-> pool_info.reward_index,
                           deprecated_staking_token |-> pool_info.staking_token],
     !.staking_token = new_staking_token]

\* variant: no pool counts as migrated
is_migrated_never(pool_info) == FALSE

\* contract.rs 226: pool_info.migration_params.is_some()
is_migrated(pool_info) == pool_info.migration_params # NoMigration

\* deprecate_staking_token
DeprecateStakingToken(sender, asset, new_staking_token) ==
  /\ BookUnchanged
  /\ IF Owner # sender
     THEN /\ res' = StakingFailure("deprecate_staking_token", sender, asset,
                                   new_staking_token, "unauthorized")
          /\ UNCHANGED pool_infos
     ELSE IF asset \notin DOMAIN pool_infos
     THEN /\ res' = StakingFailure("deprecate_staking_token", sender, asset,
                                   new_staking_token, "not found")
          /\ UNCHANGED pool_infos
     ELSE IF is_migrated(pool_infos[asset])
     THEN /\ res' = StakingFailure("deprecate_staking_token", sender, asset,
                                   new_staking_token,
                                   "This asset LP token has already been migrated")
          /\ UNCHANGED pool_infos
     ELSE /\ StorePool(asset, deprecate(pool_infos[asset], new_staking_token))
          /\ res' = StakingResult("deprecate_staking_token", sender, asset,
                                  new_staking_token)

\* the most a pool has bonded
MaxBond == 200

\* the amount of a bond and of a deposit of rewards (deprecate_test.rs 75, 93)
StakeAmount == 100

\* receive_cw20 with the Bond hook, sent by the token contract token: the
\* permission check of contract.rs 90-109 and then bond, which adds the
\* amount to the pool's total; once the pool was migrated, bond refuses a
\* staker whose position is still in the deprecated token
ReceiveBond(token, asset, amount) ==
  /\ BookUnchanged
  /\ IF asset \notin DOMAIN pool_infos
     THEN /\ res' = StakingFailure("bond", token, asset, token, "not found")
          /\ UNCHANGED pool_infos
     ELSE IF pool_infos[asset].staking_token # token
     THEN /\ res' = StakingFailure("bond", token, asset, token,
                       IF /\ pool_infos[asset].migration_params # NoMigration
                          /\ pool_infos[asset].migration_params.deprecated_staking_token
                               = token
                       THEN "The staking token for this asset has been migrated"
                       ELSE "unauthorized")
          /\ UNCHANGED pool_infos
     ELSE \/ /\ pool_infos[asset].total_bond_amount + amount <= MaxBond
             /\ StorePool(asset, [pool_infos[asset] EXCEPT
                                    !.total_bond_amount = @ + amount])
             /\ res' = StakingResult("bond", token, asset, token)
          \/ /\ pool_infos[asset].migration_params # NoMigration
             /\ res' = StakingFailure("bond", token, asset, token,
                          "The LP token for this asset has been deprecated")
             /\ UNCHANGED pool_infos

\* the largest reward index of a pool, in Decimal atomics (3.0)
MaxIndex == 30000

\* deposit_reward by the rewarder: with nothing bonded the amount waits in
\* pending_reward, else it is spread, with what waited, over the bonded total
DepositReward(asset, amount) ==
  /\ BookUnchanged
  /\ asset \in DOMAIN pool_infos
  /\ \E pool_info \in {pool_infos[asset]} :
       IF pool_info.total_bond_amount = 0
       THEN /\ pool_info.pending_reward + amount <= MaxBond
            /\ StorePool(asset, [pool_info EXCEPT !.pending_reward = @ + amount])
       ELSE /\ pool_info.reward_index < MaxIndex
            /\ StorePool(asset, [pool_info EXCEPT
                  !.reward_index = @ + from_ratio(amount + pool_info.pending_reward,
                                                  pool_info.total_bond_amount),
                  !.pending_reward = 0])
  /\ res' = StakingResult("deposit_reward", "rewarder", asset, "")

(***************************************************************************)
(* Specifications                                                          *)
(***************************************************************************)
EmptyFn == [x \in {} |-> 0]

\* a registered pair without orders and Executor rows
EmptyBook ==
  [st |-> Storage(EmptyFn, EmptyFn, {}, {}), rewards |-> EmptyFn,
   custody |-> [base |-> 0, quote |-> 0]]

\* the state of a pair without orders whose last result is r
InitRes(start, r) ==
  /\ other_book = EmptyBook
  /\ pool_infos = NoPools
  /\ last_order_id = start
  /\ orderbook = [min_quote_coin_amount |-> MinQuoteCoinAmount]
  /\ orders = EmptyFn
  /\ ticks = EmptyFn
  /\ order_by_price = {}
  /\ order_by_bidder = {}
  /\ rewards = EmptyFn
  /\ custody = [base |-> 0, quote |-> 0]
  /\ res = r

InitFrom(start) ==
  InitRes(start, Result("instantiate", TRUE, "", NoOrder, <<>>, NoDetail))

\* the state after instantiate and create_orderbook_pair
Init == InitFrom(0)

\* an empty book after LateStart orders were submitted and cancelled
InitLate == InitFrom(LateStart)

RECURSIVE SubmitAll(_, _, _)
\* the storage after the submits of the shapes, the first under id first
SubmitAll(st, shapes, first) ==
  IF shapes = <<>> THEN st
  ELSE SubmitAll(store_order(st, NewOrder(Head(shapes), first), TRUE),
                 Tail(shapes), first + 1)

RECURSIVE Deposited(_, _)
\* the deposits of the submits of the shapes in an asset
Deposited(shapes, asset) ==
  IF shapes = <<>> THEN 0
  ELSE (IF offer_asset(Head(shapes).direction) = asset
        THEN Head(shapes).offer ELSE 0)
       + Deposited(Tail(shapes), asset)

\* the book and the call of the initial state of SpecWorn: WornShapes
\* submitted under the ids up to WornLast, and excecute_pair called once by
\* "relayer"
WornBook ==
  SubmitAll(Storage(EmptyFn, EmptyFn, {}, {}), WornShapes, FirstId(WornLast))

WornCall == excecute_pair(WornBook, EmptyFn, MinQuoteCoinAmount, "relayer", NoLimit)

InitWorn ==
  /\ other_book = EmptyBook
  /\ pool_infos = NoPools
  /\ last_order_id = WornLast
  /\ orderbook = [min_quote_coin_amount |-> MinQuoteCoinAmount]
  /\ orders = WornCall.st.orders
  /\ ticks = WornCall.st.ticks
  /\ order_by_price = WornCall.st.order_by_price
  /\ order_by_bidder = WornCall.st.order_by_bidder
  /\ rewards = WornCall.rewards
  /\ custody = [a \in {"base", "quote"} |->
                  Deposited(WornShapes, a) - Paid(WornCall.messages, a)]
  /\ res = ExecuteResult("relayer", NoLimit, EmptyFn, WornCall)

\* two orders that fill each other whole at price 1, with a commission of
\* half the payout threshold on each leg
HeavyShapes ==
  << Shape("addr0000", Buy, 500000000, 500000000),
     Shape("addr0001", Sell, 500000000, 500000000) >>

\* the book and the call of the initial state of SpecHeavy: HeavyShapes
\* submitted under the last ids up to WornLast, and excecute_pair called
\* once by "relayer"
HeavyBook ==
  SubmitAll(Storage(EmptyFn, EmptyFn, {}, {}), HeavyShapes,
            WornLast + 1 - Len(HeavyShapes))

HeavyCall == excecute_pair(HeavyBook, EmptyFn, MinQuoteCoinAmount, "relayer", NoLimit)

InitHeavy ==
  /\ other_book = EmptyBook
  /\ pool_infos = NoPools
  /\ last_order_id = WornLast
  /\ orderbook = [min_quote_coin_amount |-> MinQuoteCoinAmount]
  /\ orders = HeavyCall.st.orders
  /\ ticks = HeavyCall.st.ticks
  /\ order_by_price = HeavyCall.st.order_by_price
  /\ order_by_bidder = HeavyCall.st.order_by_bidder
  /\ rewards = HeavyCall.rewards
  /\ custody = [a \in {"base", "quote"} |->
                  Deposited(HeavyShapes, a) - Paid(HeavyCall.messages, a)]
  /\ res = ExecuteResult("relayer", NoLimit, EmptyFn, HeavyCall)

\* one buy order and three sell orders of one owner that cross it, in the
\* order of their submits
BulkShapes ==
  << Shape("addr0001", Buy, 3000, 3000), Shape("addr0000", Sell, 1000, 970),
     Shape("addr0000", Sell, 1000, 970), Shape("addr0000", Sell, 1000, 970) >>

\* the books of the initial state of SpecBulk: the first n of BulkShapes
\* submitted under the ids up to WornLast
BulkBook(n) ==
  SubmitAll(Storage(EmptyFn, EmptyFn, {}, {}), SubSeq(BulkShapes, 1, n),
            WornLast + 1 - Len(BulkShapes))

\* the state after the submits of BulkShapes, before any excecute_pair
InitBulk ==
  /\ other_book = EmptyBook
  /\ pool_infos = NoPools
  /\ last_order_id = WornLast
  /\ orderbook = [min_quote_coin_amount |-> MinQuoteCoinAmount]
  /\ orders = BulkBook(Len(BulkShapes)).orders
  /\ ticks = BulkBook(Len(BulkShapes)).ticks
  /\ order_by_price = BulkBook(Len(BulkShapes)).order_by_price
  /\ order_by_bidder = BulkBook(Len(BulkShapes)).order_by_bidder
  /\ rewards = EmptyFn
  /\ custody = [a \in {"base", "quote"} |-> Deposited(BulkShapes, a)]
  /\ res = Result("submit_order", TRUE, BulkShapes[Len(BulkShapes)].sender,
                  NewOrder(BulkShapes[Len(BulkShapes)], WornLast), <<>>,
                  [NoDetail EXCEPT !.before =
                     [st |-> BulkBook(Len(BulkShapes) - 1),
                      custody |-> [a \in {"base", "quote"} |->
                         Deposited(SubSeq(BulkShapes, 1, Len(BulkShapes) - 1), a)]]])

\* what a call that fails leaves as it was
Untouched ==
  UNCHANGED <<last_order_id, orderbook, orders, ticks, order_by_price,
              order_by_bidder, rewards, custody, other_book, pool_infos>>

\* what a call on the second pair leaves alone
PairUnchanged ==
  UNCHANGED <<orderbook, orders, ticks, order_by_price, order_by_bidder,
              rewards, custody, pool_infos>>

\* submit_order on the second pair: the same global last_order_id, the
\* storage of that pair
SubmitOrderOther(shape) ==
  /\ last_order_id < LastId(last_order_id)
  /\ IF shape.offer = 0 \/ shape.ask = 0
     THEN /\ res' = OtherResult("submit_order", FALSE, shape.sender, NoOrder, <<>>)
          /\ UNCHANGED <<last_order_id, other_book>>
          /\ PairUnchanged
     ELSE \E order \in {NewOrder(shape, increase_last_order_id(last_order_id))} :
            /\ last_order_id' = order.order_id
            /\ other_book' = [other_book EXCEPT
                           !.st = store_order(@, order, TRUE),
                           !.custody[offer_asset(shape.direction)] = @ + shape.offer]
            /\ res' = OtherResult("submit_order", TRUE, shape.sender, order, <<>>)
            /\ PairUnchanged

\* cancel_order on the second pair
CancelOrderOther(sender, order_id) ==
  /\ UNCHANGED last_order_id
  /\ PairUnchanged
  /\ IF order_id \notin DOMAIN other_book.st.orders
     THEN /\ res' = OtherResult("cancel_order", FALSE, sender,
                                [order_id |-> order_id], <<>>)
          /\ UNCHANGED <<other_book, pool_infos>>
     ELSE IF Unauthorized(other_book.st.orders[order_id], sender)
     THEN /\ res' = OtherResult("cancel_order", FALSE, sender,
                                [order_id |-> order_id], <<>>)
          /\ UNCHANGED <<other_book, pool_infos>>
     ELSE \E order \in {other_book.st.orders[order_id]} :
            /\ other_book' = [other_book EXCEPT
                           !.st = remove_order(@, order),
                           !.custody = [a \in {"base", "quote"} |->
                                          @[a] - Paid(refund_messages(order), a)]]
            /\ res' = OtherResult("cancel_order", TRUE, sender, order,
                                  refund_messages(order))

\* excecute_pair on the second pair
ExecutePairOther(sender, limit) ==
  /\ UNCHANGED last_order_id
  /\ PairUnchanged
  /\ \E r \in {excecute_pair(other_book.st, other_book.rewards, MinQuoteCoinAmount,
                              sender, limit)} :
       IF ~r.ok
       THEN /\ res' = OtherResult("execute_orderbook_pair", FALSE, sender,
                                  NoOrder, <<>>)
            /\ UNCHANGED <<other_book, pool_infos>>
       ELSE /\ other_book' = [st |-> r.st, rewards |-> r.rewards,
                         custody |-> [a \in {"base", "quote"} |->
                                        other_book.custody[a] - Paid(r.messages, a)]]
            /\ res' = OtherResult("execute_orderbook_pair", TRUE, sender,
                                  NoOrder, r.messages)

\* the orders submitted when two pairs are in use
PairShapes ==
  { Shape("addr0000", Buy, 1000, 1000), Shape("addr0001", Sell, 1000, 970) }

Next ==
  \/ \E shape \in OrderShapes : SubmitOrder(shape) /\ UNCHANGED <<other_book, pool_infos>>
  \/ \E sender \in Bidders, order_id \in FirstId(last_order_id)..last_order_id :
       CancelOrder(sender, order_id) /\ UNCHANGED <<other_book, pool_infos>>
  \/ \E sender \in Relayers, limit \in Limits :
       ExecutePair(sender, limit) /\ UNCHANGED <<other_book, pool_infos>>

\* the calls on two pairs
NextPairs ==
  \/ \E shape \in PairShapes : SubmitOrder(shape) /\ UNCHANGED <<other_book, pool_infos>>
  \/ \E sender \in Bidders, order_id \in FirstId(last_order_id)..last_order_id :
       CancelOrder(sender, order_id) /\ UNCHANGED <<other_book, pool_infos>>
  \/ \E sender \in Relayers : ExecutePair(sender, NoLimit) /\ UNCHANGED <<other_book, pool_infos>>
  \/ \E shape \in PairShapes : SubmitOrderOther(shape)
  \/ \E sender \in Bidders, order_id \in FirstId(last_order_id)..last_order_id :
       CancelOrderOther(sender, order_id)
  \/ \E sender \in Relayers : ExecutePairOther(sender, NoLimit)

(***************************************************************************)
(* Two pairs in one store: every bucket of state.rs is named by its        *)
(* prefix and the pair key, so a handler reaches the rows of the pair its  *)
(* asset_infos name.                                                       *)
(***************************************************************************)
Pairs == {"pair", "other"}

\* order.rs 88-91, 334-337: the key of the pair a call names with its
\* asset_infos; two pairs have different keys
pair_key(pair) == pair

\* variant: a bucket is named by its prefix alone
namespace_of_prefix(key) == "pair"

\* state.rs 39, 43, 52, 59-70: Bucket::multilevel(storage, &[PREFIX, pair_key]),
\* the rows a handler reaches with a pair key
namespace(key) == key

\* the rows of the store by the pair key in their namespace
Buckets ==
  [k \in Pairs |->
     IF k = "pair"
     THEN [st |-> CurrentStorage, rewards |-> rewards, custody |-> custody]
     ELSE other_book]

SetBuckets(b) ==
  /\ SetStorage(b["pair"].st)
  /\ rewards' = b["pair"].rewards
  /\ custody' = b["pair"].custody
  /\ other_book' = b["other"]

\* the result of a call on the pair
PairResult(pair, r) == [r EXCEPT !.pair = pair]

\* submit_order on the pair its asset_infos name
SubmitOrderAt(pair, shape) ==
  /\ last_order_id < LastId(last_order_id)
  /\ IF AssetIsZero(shape)
     THEN /\ res' = PairResult(pair, Failure("submit_order", shape.sender, NoOrder,
                                             "AssetMustNotBeZero"))
          /\ Untouched
     ELSE \E order \in {NewOrder(shape, increase_last_order_id(last_order_id))} :
            /\ last_order_id' = order.order_id
            /\ SetBuckets([Buckets EXCEPT ![namespace(pair_key(pair))] =
                  [@ EXCEPT !.st = store_order(@, order, TRUE),
                            !.custody[offer_asset(shape.direction)] = @ + shape.offer]])
            /\ res' = PairResult(pair, Result("submit_order", TRUE, shape.sender,
                                              order, <<>>, NoDetail))
            /\ UNCHANGED <<orderbook, pool_infos>>

\* cancel_order on the pair its asset_infos name
CancelOrderAt(pair, sender, order_id) ==
  \E book \in {Buckets[namespace(pair_key(pair))]} :
    IF order_id \notin DOMAIN book.st.orders
    THEN /\ res' = PairResult(pair, Failure("cancel_order", sender,
                                            [order_id |-> order_id], "NotFound"))
         /\ Untouched
    ELSE IF Unauthorized(book.st.orders[order_id], sender)
    THEN /\ res' = PairResult(pair, Failure("cancel_order", sender,
                                            [order_id |-> order_id], "Unauthorized"))
         /\ Untouched
    ELSE \E order \in {book.st.orders[order_id]} :
           /\ SetBuckets([Buckets EXCEPT ![namespace(pair_key(pair))] =
                 [@ EXCEPT !.st = remove_order(@, order),
                           !.custody = [a \in {"base", "quote"} |->
                                          @[a] - Paid(refund_messages(order), a)]]])
           /\ res' = PairResult(pair, Result("cancel_order", TRUE, sender, order,
                                             refund_messages(order), NoDetail))
           /\ UNCHANGED <<last_order_id, orderbook, pool_infos>>

\* excecute_pair on the pair its asset_infos name
ExecutePairAt(pair, sender, limit) ==
  \E book \in {Buckets[namespace(pair_key(pair))]} :
  \E r \in {excecute_pair(book.st, book.rewards, MinQuoteCoinAmount, sender, limit)} :
    IF ~r.ok
    THEN /\ res' = PairResult(pair, Failure("execute_orderbook_pair", sender,
                                            NoOrder, "NotFound"))
         /\ Untouched
    ELSE /\ SetBuckets([Buckets EXCEPT ![namespace(pair_key(pair))] =
               [st |-> r.st, rewards |-> r.rewards,
                custody |-> [a \in {"base", "quote"} |->
                               book.custody[a] - Paid(r.messages, a)]]])
         /\ res' = PairResult(pair, ExecuteResult(sender, limit, book.rewards, r))
         /\ UNCHANGED <<last_order_id, orderbook, pool_infos>>

\* the calls on two pairs of one store
NextFrame ==
  \/ \E pair \in Pairs, shape \in PairShapes : SubmitOrderAt(pair, shape)
  \/ \E pair \in Pairs, sender \in Bidders,
         order_id \in FirstId(last_order_id)..last_order_id :
       CancelOrderAt(pair, sender, order_id)
  \/ \E pair \in Pairs : ExecutePairAt(pair, "relayer", NoLimit)

SpecFrame == Init /\ [][NextFrame]_vars

Spec == Init /\ [][Next]_vars

SpecLate == InitLate /\ [][Next]_vars

SpecWorn == InitWorn /\ [][Next]_vars

SpecPairs == Init /\ [][NextPairs]_vars

\* the calls on a book of heavy orders
NextHeavy ==
  \/ \E n \in 1..Len(HeavyShapes) : SubmitOrder(HeavyShapes[n]) /\ UNCHANGED <<other_book, pool_infos>>
  \/ \E sender \in Bidders, order_id \in FirstId(last_order_id)..last_order_id :
       CancelOrder(sender, order_id) /\ UNCHANGED <<other_book, pool_infos>>
  \/ \E sender \in Relayers, limit \in Limits :
       ExecutePair(sender, limit) /\ UNCHANGED <<other_book, pool_infos>>

SpecHeavy == InitHeavy /\ [][NextHeavy]_vars

\* the calls on the book of BulkShapes
NextBulk ==
  \/ \E n \in 1..Len(BulkShapes) : SubmitOrder(BulkShapes[n]) /\ UNCHANGED <<other_book, pool_infos>>
  \/ \E sender \in Bidders, order_id \in FirstId(last_order_id)..last_order_id :
       CancelOrder(sender, order_id) /\ UNCHANGED <<other_book, pool_infos>>
  \/ \E sender \in Relayers : ExecutePair(sender, NoLimit) /\ UNCHANGED <<other_book, pool_infos>>

SpecBulk == InitBulk /\ [][NextBulk]_vars

\* orders whose fills leave a buy remainder of 50 quote worth 5 base (at
\* price 10) and one of 8 quote worth 16 base (at price 0.5)
DustShapes ==
  { Shape("addr0000", Buy, 1050, 100), Shape("addr0001", Sell, 100, 1000),
    Shape("addr0000", Buy, 508, 1016), Shape("addr0001", Sell, 1000, 500) }

\* the calls on a book of orders that leave small remainders
NextDust ==
  \/ \E shape \in DustShapes : SubmitOrder(shape) /\ UNCHANGED <<other_book, pool_infos>>
  \/ \E sender \in Bidders, order_id \in FirstId(last_order_id)..last_order_id :
       CancelOrder(sender, order_id) /\ UNCHANGED <<other_book, pool_infos>>
  \/ \E sender \in Relayers, limit \in Limits :
       ExecutePair(sender, limit) /\ UNCHANGED <<other_book, pool_infos>>

SpecDust == Init /\ [][NextDust]_vars

\* submits with an amount of zero (contract_test.rs 197-226), next to the
\* calls of Next
ZeroShapes ==
  { Shape("addr0000", Buy, 1000, 0), Shape("addr0001", Buy, 0, 1000),
    Shape("addr0001", Sell, 1000, 0) }

NextZero ==
  \/ Next
  \/ \E shape \in ZeroShapes : SubmitOrder(shape) /\ UNCHANGED <<other_book, pool_infos>>

SpecZero == Init /\ [][NextZero]_vars

\* orders whose pairs fill in part, in whole and not at all: a buy 1000/1000
\* and a sell 400/400 at price 1, a buy at 10.5 and a sell of 1 base at 10
FillShapes ==
  { Shape("addr0000", Buy, 1000, 1000), Shape("addr0001", Sell, 400, 400),
    Shape("addr0000", Buy, 1050, 100), Shape("addr0001", Sell, 1, 10) }

NextFill ==
  \/ \E shape \in FillShapes : SubmitOrder(shape) /\ UNCHANGED <<other_book, pool_infos>>
  \/ \E sender \in Bidders, order_id \in FirstId(last_order_id)..last_order_id :
       CancelOrder(sender, order_id) /\ UNCHANGED <<other_book, pool_infos>>
  \/ \E limit \in Limits :
       ExecutePair("relayer", limit) /\ UNCHANGED <<other_book, pool_infos>>

SpecFill == Init /\ [][NextFill]_vars

\* orders that rest at the tick 1.000 with different prices: buys at 1.0004
\* and 1.0001, sells at 1.0001 and 1.0004
TickShapes ==
  { Shape("addr0000", Buy, 10004, 10000), Shape("addr0000", Buy, 10001, 10000),
    Shape("addr0001", Sell, 10000, 10001), Shape("addr0001", Sell, 10000, 10004) }

NextTick ==
  \/ \E shape \in TickShapes : SubmitOrder(shape) /\ UNCHANGED <<other_book, pool_infos>>
  \/ \E sender \in Bidders, order_id \in FirstId(last_order_id)..last_order_id :
       CancelOrder(sender, order_id) /\ UNCHANGED <<other_book, pool_infos>>
  \/ \E limit \in Limits :
       ExecutePair("relayer", limit) /\ UNCHANGED <<other_book, pool_infos>>

SpecTick == Init /\ [][NextTick]_vars

\* a book is built by submits, then excecute_pair is called again and again
\* with no submit in between
NextRepeat ==
  \/ \E shape \in FillShapes :
       /\ res.op # "execute_orderbook_pair"
       /\ SubmitOrder(shape) /\ UNCHANGED <<other_book, pool_infos>>
  \/ ExecutePair("relayer", NoLimit) /\ UNCHANGED <<other_book, pool_infos>>

\* the matcher is called as long as a call changes anything
SpecRepeat ==
  /\ Init /\ [][NextRepeat]_vars
  /\ WF_vars(ExecutePair("relayer", NoLimit) /\ UNCHANGED <<other_book, pool_infos>>)

\* the callers of the admin operations: the hard-coded admin, the admin of
\* the config (a bidder too) and another bidder
AdminSenders == {ADMIN_WALLET} \cup Bidders

\* the prices execute_remove_price is called with, as Decimal atomics
AdminPrices == {from_ratio(1000, 1000)}

AdminShapes ==
  { Shape("addr0001", Buy, 1000, 1000), Shape("addr0000", Sell, 1000, 970) }

\* the trading calls and the admin operations on one pair, and calls that
\* name a pair without order book
NextAdmin ==
  \/ \E shape \in AdminShapes : SubmitOrder(shape) /\ UNCHANGED <<other_book, pool_infos>>
  \/ \E sender \in Bidders, order_id \in FirstId(last_order_id)..last_order_id :
       CancelOrder(sender, order_id) /\ UNCHANGED <<other_book, pool_infos>>
  \/ ExecutePair("relayer", NoLimit) /\ UNCHANGED <<other_book, pool_infos>>
  \/ \E sender \in AdminSenders : RemovePair(sender) /\ UNCHANGED <<other_book, pool_infos>>
  \/ \E sender \in AdminSenders, order_id \in FirstId(last_order_id)..last_order_id :
       RemoveStuffOrder(sender, order_id) /\ UNCHANGED <<other_book, pool_infos>>
  \/ \E sender \in AdminSenders, price \in AdminPrices :
       RemovePrice(sender, Buy, price) /\ UNCHANGED <<other_book, pool_infos>>
  \/ \E sender \in AdminSenders :
       RemoveStatus(sender, last_order_id, Open) /\ UNCHANGED <<other_book, pool_infos>>
  \/ UnknownPair("execute_orderbook_pair", "relayer", NoOrder) /\ UNCHANGED <<other_book, pool_infos>>
  \/ \E sender \in Bidders :
       UnknownPair("cancel_order", sender, [order_id |-> last_order_id])
         /\ UNCHANGED <<other_book, pool_infos>>

SpecAdmin == Init /\ [][NextAdmin]_vars

\* start_after: None
NoStart == -1

\* a range bound that is None
NoKey == <<>>

RECURSIVE FromLeBytes(_)
\* u64::from_le_bytes
FromLeBytes(bytes) ==
  IF bytes = <<>> THEN 0 ELSE Head(bytes) + 256 * FromLeBytes(Tail(bytes))

\* state.rs 176-183
bytes_to_u64(data) == FromLeBytes(SubSeq(data, 1, 8))

\* state.rs 186-192: the key of the id with a byte 1 appended
calc_range_start(start_after) ==
  IF start_after = NoStart THEN NoKey ELSE Append(to_le_bytes(start_after), 1)

\* state.rs 195-197
calc_range_end(start_after) ==
  IF start_after = NoStart THEN NoKey ELSE to_le_bytes(start_after)

\* Bucket::range(start, end, order).take(limit) over the keys K: start is
\* inclusive, end exclusive
RangeTake(K, start, end, ascending, limit) ==
  LET scan == RangeAscending({k \in K : /\ (start = NoKey \/ ~LexLess(k, start))
                                        /\ (end = NoKey \/ LexLess(k, end))})
  IN Take(IF ascending THEN scan ELSE Reverse(scan), limit)

\* state.rs 150-174: the order rows of a pair in key order
read_orders(o, start_after, limit, order_by) ==
  LET ascending == order_by = "Ascending"
      keys == RangeTake({to_le_bytes(i) : i \in DOMAIN o},
                        IF ascending THEN calc_range_start(start_after) ELSE NoKey,
                        IF ascending THEN NoKey ELSE calc_range_end(start_after),
                        ascending, EffLimit(limit))
  IN [n \in 1..Len(keys) |-> o[bytes_to_u64(keys[n])]]

\* query_orders without filter and direction: the page read_orders returns;
\* res keeps what the query was called with
QueryOrders(start_after, limit, order_by) ==
  /\ res' = Result("orders", TRUE, "",
                   [start_after |-> start_after, limit |-> limit,
                    order_by |-> order_by,
                    orders |-> read_orders(orders, start_after, limit, order_by)],
                   <<>>, NoDetail)
  /\ Untouched

\* the most orders a queried book holds: more than MAX_LIMIT
MaxStored == 32

\* the first id of the queried books that reach past id 255
QueryLate == 240

\* the orders of a queried book: n buys at one tick, by two bidders in turn
QueryShapes(n) ==
  [i \in 1..n |-> Shape(IF i % 2 = 1 THEN "addr0000" ELSE "addr0001", Buy, 950, 1000)]

\* the storage after the submits a..b of the queried book were added to st
QueryBook(st, first, n, a, b) ==
  SubmitAll(st, SubSeq(QueryShapes(n), a, Min(n, b)), first + a)

\* books of 0, 2, DEFAULT_LIMIT + 1 and MaxStored orders, submitted after
\* first earlier orders of the contract
InitQuery ==
  \E first \in {0, QueryLate}, n \in {0, 2, DEFAULT_LIMIT + 1, MaxStored} :
    \E b1 \in {QueryBook(Storage(EmptyFn, EmptyFn, {}, {}), first, n, 1, 8)} :
    \E b2 \in {QueryBook(b1, first, n, 9, 16)} :
    \E b3 \in {QueryBook(b2, first, n, 17, 24)} :
    \E book \in {QueryBook(b3, first, n, 25, MaxStored)} :
      /\ other_book = EmptyBook
      /\ pool_infos = NoPools
      /\ last_order_id = first + n
      /\ orderbook = [min_quote_coin_amount |-> MinQuoteCoinAmount]
      /\ orders = book.orders
      /\ ticks = book.ticks
      /\ order_by_price = book.order_by_price
      /\ order_by_bidder = book.order_by_bidder
      /\ rewards = EmptyFn
      /\ custody = [a \in {"base", "quote"} |-> Deposited(QueryShapes(n), a)]
      /\ res = Result("instantiate", TRUE, "", NoOrder, <<>>, NoDetail)

\* the cursors of the queries: none, and ids around the stored ones
QueryStarts(first) == {NoStart} \cup {first + d : d \in {0, 1, 2, 10, 16, 20, 31, 33}}

NextQuery ==
  \E start_after \in QueryStarts(IF last_order_id >= QueryLate THEN QueryLate ELSE 0),
     limit \in {NoLimit, 2, MAX_LIMIT, MAX_LIMIT + 1},
     order_by \in {"None", "Ascending", "Descending"} :
    QueryOrders(start_after, limit, order_by)

\* the pages of the orders query
SpecQuery == InitQuery /\ [][NextQuery]_vars

RECURSIVE BeBytes(_, _)
\* the w low-order bytes of n, most significant first
BeBytes(n, w) == IF w = 0 THEN <<>>
                 ELSE BeBytes(n \div 256, w - 1) \o <<n % 256>>

\* Uint128::to_be_bytes of the atomics of a Decimal
to_be_bytes(atomics) == BeBytes(atomics, 16)

\* state.rs 124-148: the ids of an index namespace in range order, at most
\* limit of them, each read from the order table; one id without a row makes
\* the whole result an error
read_orders_with_indexer(st, ids, start_after, limit, order_by) ==
  LET ascending == order_by = "Ascending"
      keys == RangeTake({to_le_bytes(i) : i \in ids},
                        IF ascending THEN calc_range_start(start_after) ELSE NoKey,
                        IF ascending THEN NoKey ELSE calc_range_end(start_after),
                        ascending, EffLimit(limit))
      ok == \A n \in 1..Len(keys) : bytes_to_u64(keys[n]) \in DOMAIN st.orders
  IN [ok |-> ok,
      list |-> IF ok THEN [n \in 1..Len(keys) |-> st.orders[bytes_to_u64(keys[n])]]
               ELSE <<>>]

\* order.rs 816-821: the direction filter of a query; "None" accepts all
direction_filter(direction, order) ==
  direction = "None" \/ order.direction = direction

\* the orders of a list the direction filter accepts
FilterDirection(list, direction) ==
  LET Accepts(order) == direction_filter(direction, order)
  IN SelectSeq(list, Accepts)

\* order.rs 848-858: query_orders with filter Price(price): the by-price
\* namespace is named by the 16 big-endian bytes of the price's atomics
QueryOrdersPrice(direction, price, start_after, limit, order_by) ==
  /\ \E r \in {read_orders_with_indexer(CurrentStorage,
                   {x[2] : x \in {y \in order_by_price : y[1] = to_be_bytes(price)}},
                   start_after, limit, order_by)} :
       res' = Result("orders", r.ok, "",
                     [filter |-> "Price", direction |-> direction, price |-> price,
                      start_after |-> start_after, limit |-> limit,
                      order_by |-> order_by,
                      orders |-> FilterDirection(r.list, direction)],
                     <<>>, NoDetail)
  /\ Untouched

\* the prices asked for: 1.000, and the price of every tick of the book
\* (what the ticks query lists)
QueryPrices == {from_ratio(1000, 1000)} \cup {KeyPrice(k) : k \in DOMAIN ticks}

NextPrice ==
  \/ \E shape \in PairShapes : SubmitOrder(shape) /\ UNCHANGED <<other_book, pool_infos>>
  \/ \E sender \in Bidders, order_id \in FirstId(last_order_id)..last_order_id :
       CancelOrder(sender, order_id) /\ UNCHANGED <<other_book, pool_infos>>
  \/ ExecutePair("relayer", NoLimit) /\ UNCHANGED <<other_book, pool_infos>>
  \/ \E direction \in {"None", Buy, Sell}, price \in QueryPrices,
         order_by \in {"None", "Ascending"} :
       QueryOrdersPrice(direction, price, NoStart, NoLimit, order_by)

\* the orders query by price on a book that changes
SpecPrice == Init /\ [][NextPrice]_vars

Assets == {"asset"}

\* the token contracts that send hooks and are named as staking tokens
Tokens == {"staking", "new_staking", "other"}

NextStaking ==
  \/ \E sender \in {Owner, "addr"}, asset \in Assets :
       RegisterAsset(sender, asset, "staking")
  \/ \E sender \in {Owner, "addr"}, asset \in Assets, token \in Tokens \ {"other"} :
       DeprecateStakingToken(sender, asset, token)
  \/ \E token \in Tokens, asset \in Assets : ReceiveBond(token, asset, StakeAmount)
  \/ \E asset \in Assets : DepositReward(asset, StakeAmount)

\* the staking contract after init, next to an order book without orders
SpecStaking == Init /\ [][NextStaking]_vars

\* the largest quote amount of a sampled fill
MaxLeg == 1200

\* match prices of the sampled fills: 1, 0.97, 10.5, 0.005 and 0.0001
LegPrices ==
  { from_ratio(1, 1), from_ratio(970, 1000), from_ratio(1050, 100),
    from_ratio(5, 1000), from_ratio(1, 10000) }

\* a fill about to be made: sell_ask_amount is what the sell order receives
\* at match_price
FillInput(sell_ask_amount, match_price) ==
  [sell_ask_amount |-> sell_ask_amount, match_price |-> match_price]

InitFees ==
  \E sell_ask_amount \in 0..MaxLeg, match_price \in LegPrices :
    InitRes(0, Result("fill_input", TRUE, "",
                      FillInput(sell_ask_amount, match_price), <<>>, NoDetail))

\* order.rs 459-575 for one pair of orders with enough left: the amounts of
\* the two legs at match_price and the fees taken from them
FeeLegs(sell_ask_amount, match_price) ==
  \E sell_offer_amount \in {DivDec(sell_ask_amount, match_price)} :
    /\ ~(sell_ask_amount = 0 \/ sell_offer_amount = 0)
    /\ \E quote_leg \in {LegFees(sell_ask_amount, MulDec(RELAY_FEE, match_price))},
          base_leg \in {LegFees(sell_offer_amount, RELAY_FEE)} :
         res' = Result("fee_legs", TRUE, "", NoOrder, <<>>,
                  [NoDetail EXCEPT !.fills =
                     <<[match_price |-> match_price,
                        sell_ask_amount |-> sell_ask_amount,
                        sell_offer_amount |-> sell_offer_amount,
                        reward_fee |-> [base |-> base_leg.reward_fee,
                                        quote |-> quote_leg.reward_fee],
                        relayer_fee |-> [base |-> base_leg.relayer_fee,
                                         quote |-> quote_leg.relayer_fee],
                        payout |-> [base |-> base_leg.payout,
                                    quote |-> quote_leg.payout]]>>])
    /\ Untouched

NextFees ==
  /\ res.op = "fill_input"
  /\ FeeLegs(res.order.sell_ask_amount, res.order.match_price)

\* the fees of fills over a range of amounts and prices
SpecFees == InitFees /\ [][NextFees]_vars

TypeOK ==
  /\ last_order_id \in Nat
  /\ \A i \in DOMAIN orders : orders[i].order_id = i

(***************************************************************************)
(* Claims                                                                  *)
(***************************************************************************)
LastWasExecute == res.op = "execute_orderbook_pair" /\ res.ok

Fills == res.detail.fills

\* C1: every stored order has filled_offer_amount <= offer_amount and
\* filled_ask_amount <= ask_amount, also after fills at a match price that
\* differs from the order's own price.
C1_FilledWithinOriginal ==
  \A i \in DOMAIN orders :
    /\ orders[i].filled_offer_amount <= orders[i].offer_amount
    /\ orders[i].filled_ask_amount <= orders[i].ask_amount

RECURSIVE SumSeq(_)
\* the sum of a sequence of numbers
SumSeq(seq) == IF seq = <<>> THEN 0 ELSE Head(seq) + SumSeq(Tail(seq))

\* what the last excecute_pair call took out of order escrow in an asset:
\* the fill amounts drawn from the offers and the dust residuals swept
Drawn(asset) ==
  LET leg(f) == IF asset = "quote" THEN f.sell_ask_amount ELSE f.sell_offer_amount
      dust(w) == IF w.asset = asset THEN w.amount ELSE 0
  IN SumSeq([i \in 1..Len(Fills) |-> leg(Fills[i])])
     + SumSeq([i \in 1..Len(res.detail.sweeps) |-> dust(res.detail.sweeps[i])])

\* the net change of the stored balances of the reward-wallet Executor and
\* the caller's Executor over the last excecute_pair call
ExecutorsNetChange(asset) ==
  LET before(a) == IF a = REWARD_WALLET THEN res.detail.rewards_before[1][asset]
                   ELSE res.detail.rewards_before[2][asset]
      change(a) == process_reward(rewards, a)[asset] - before(a)
  IN IF res.sender = REWARD_WALLET THEN change(REWARD_WALLET)
     ELSE change(REWARD_WALLET) + change(res.sender)

\* C2: over an excecute_pair call and for each asset of the pair, the
\* transfers to traders plus the transfers out of the two Executors plus the
\* net change of the two Executors' stored balances equal the amount taken
\* out of order escrow (fills drawn from offers plus dust swept).
C2_ValueConservation ==
  LastWasExecute =>
    \A asset \in {"base", "quote"} :
      Paid(res.messages, asset) + ExecutorsNetChange(asset) = Drawn(asset)

\* the order ids the by-price index holds at a tick key
IndexedAt(k) == {p \in order_by_price : p[1] = k}

\* C3: the stored tick counter of every price level equals the number of
\* order ids in the by-price index at that level, and no counter entry with
\* value 0 is stored.
C3_TickCounterMatchesIndex ==
  /\ \A k \in DOMAIN ticks :
       ticks[k] # 0 /\ ticks[k] = Cardinality(IndexedAt(k))
  /\ \A p \in order_by_price : p[1] \in DOMAIN ticks

\* C4: among the orders of one price and direction, fills follow ascending
\* numeric order_id, ids from 256 on included: no order is filled while an
\* older order of its tick and direction is still waiting.
C4_FifoWithinTick ==
  LastWasExecute =>
    \A n \in 1..Len(Fills) :
      Fills[n].older_buys = {} /\ Fills[n].older_sells = {}

\* C5: for two stored tick prices p < q the key of p sorts before the key
\* of q in byte order, also when the integer parts differ in length.
C5_TickKeysSortByPrice ==
  \A p, q \in DOMAIN ticks : KeyPrice(p) < KeyPrice(q) => LexLess(p, q)

\* C6: no fill pairs a buy order with a sell order whose tick price is above
\* the buy order's tick price.
C6_NoFillBelowSellTick ==
  LastWasExecute =>
    \A n \in 1..Len(Fills) :
      /\ ~(Fills[n].buy_tick < Fills[n].sell_tick)
      /\ ~(KeyPrice(Fills[n].buy_key) < KeyPrice(Fills[n].sell_key))

\* buys at 1.000 and 0.950 and a sell at 0.970: the call filled the 1.000 buy
\* against the sell and left the 0.950 buy as it was submitted
C6_Witness ==
  /\ LastWasExecute
  /\ \E n \in 1..Len(Fills) :
       Fills[n].buy_tick = 10000 /\ Fills[n].sell_tick = 9700
  /\ \E i \in DOMAIN orders :
       /\ orders[i].direction = Buy
       /\ get_price(orders[i]) = 9500
       /\ orders[i].status = Open
       /\ orders[i].filled_offer_amount = 0
  /\ \A n \in 1..Len(Fills) : Fills[n].buy_price # 9500

\* C7: within one call the fills follow the price priority of the two
\* lists: a fill at a higher buy tick comes before every fill at a lower buy
\* tick, and at one buy tick a fill at a lower sell tick comes first.
C7_PricePriority ==
  LastWasExecute =>
    \A i, j \in 1..Len(Fills) :
      i < j =>
        \/ Fills[i].buy_tick > Fills[j].buy_tick
        \/ /\ Fills[i].buy_tick = Fills[j].buy_tick
           /\ Fills[i].sell_tick <= Fills[j].sell_tick

\* C8: a buy and a sell of different ticks (buy tick above sell tick) are
\* filled at the buy order's price if the sell order's id is the smaller one,
\* and at the sell order's price otherwise.
C8_MatchPriceByAge ==
  LastWasExecute =>
    \A n \in 1..Len(Fills) :
      Fills[n].buy_tick > Fills[n].sell_tick =>
        Fills[n].match_price =
          IF Fills[n].sell < Fills[n].buy
          THEN Fills[n].buy_price
          ELSE Fills[n].sell_price

\* a fill across two ticks in which the buy order is the younger one and
\* the two orders' prices differ
C8_Witness ==
  /\ LastWasExecute
  /\ \E n \in 1..Len(Fills) :
       /\ Fills[n].buy_tick > Fills[n].sell_tick
       /\ Fills[n].sell < Fills[n].buy
       /\ Fills[n].buy_price # Fills[n].sell_price
       /\ Fills[n].match_price = Fills[n].buy_price

\* C9 as stated: with match_one_price false the fill is at the sell's price
\* if sell_id < buy_id and at the buy's price otherwise.
C9_SellPriceWhenSellOlder ==
  LastWasExecute =>
    \A n \in 1..Len(Fills) :
      ~Fills[n].match_one_price =>
        /\ Fills[n].sell < Fills[n].buy =>
             Fills[n].match_price = Fills[n].sell_price
        /\ Fills[n].sell > Fills[n].buy =>
             Fills[n].match_price = Fills[n].buy_price

\* C9: with match_one_price false the fill is at the buy's price if
\* sell_id < buy_id and at the sell's price otherwise.
C9_BuyPriceWhenSellOlder ==
  LastWasExecute =>
    \A n \in 1..Len(Fills) :
      ~Fills[n].match_one_price =>
        /\ Fills[n].sell < Fills[n].buy =>
             Fills[n].match_price = Fills[n].buy_price
        /\ Fills[n].sell > Fills[n].buy =>
             Fills[n].match_price = Fills[n].sell_price

\* a fill across two ticks in which the sell order is the younger one and
\* the fill is at its price, which is not the buy order's
C9_Witness ==
  /\ LastWasExecute
  /\ \E n \in 1..Len(Fills) :
       /\ ~Fills[n].match_one_price
       /\ Fills[n].buy < Fills[n].sell
       /\ Fills[n].match_price = Fills[n].sell_price
       /\ Fills[n].match_price # Fills[n].buy_price

LastWasCancel == res.op = "cancel_order" /\ res.ok

C11_CancelRejected ==
  [][(/\ res'.op = "cancel_order"
      /\ \/ res'.order.order_id \notin DOMAIN orders
         \/ orders[res'.order.order_id].bidder_addr # res'.sender)
     => (~res'.ok /\ res'.messages = <<>> /\ Untouched)]_vars

\* a second cancel of an order that was submitted and cancelled, on a book
\* no matcher call has touched
C11_Witness ==
  /\ res.op = "cancel_order"
  /\ ~res.ok
  /\ res.order.order_id \in 1..last_order_id
  /\ res.order.order_id \notin DOMAIN orders
  /\ rewards = EmptyFn
  /\ res.messages = <<>>

\* C12: submit_order followed at once by cancel_order of that order by its
\* bidder returns the whole offer: the custody, the order table, the indexes
\* and the tick counters are what they were before the submit, and only
\* last_order_id differs.
C12_SubmitCancelRoundTrip ==
  [][(/\ res.op = "submit_order" /\ res.ok
      /\ res'.op = "cancel_order" /\ res'.ok
      /\ res'.order.order_id = res.order.order_id)
     => (/\ CurrentStorage' = res.detail.before.st
         /\ custody' = res.detail.before.custody
         /\ Paid(res'.messages, offer_asset(res.order.direction))
              = res.order.offer_amount
         /\ UNCHANGED <<last_order_id, rewards, orderbook>>)]_vars

\* the tick prices of the stored orders of a direction
StoredTicks(direction) ==
  {KeyPrice(price_key(orders[i])) :
     i \in {j \in DOMAIN orders : orders[j].direction = direction}}

\* no stored buy order is at a tick at or above the tick of a stored sell
\* order: one side is empty, or the best buy tick is below the best sell tick
NoCrossing ==
  \A pb \in StoredTicks(Buy), ps \in StoredTicks(Sell) : pb < ps

\* C13: excecute_pair on a book without crossing orders writes nothing and
\* emits no transfer: orders, indexes, tick counters and Executor rows are
\* the same after the call.
C13_NoCrossNoWrite ==
  [][(res'.op = "execute_orderbook_pair" /\ res'.pair = "pair" /\ NoCrossing)
     => (/\ res'.messages = <<>>
         /\ UNCHANGED <<orders, ticks, order_by_price, order_by_bidder, rewards>>)]_vars

\* C13 as the code has it: excecute_pair on a book without crossing orders
\* emits no transfer and leaves orders, indexes and tick counters alone; it
\* stores the Executor rows of the reward wallet and of the caller with
\* their amounts as they were, a missing row as a row of zero amounts.
C13_NoCrossOnlyExecutorRows ==
  [][(res'.op = "execute_orderbook_pair" /\ res'.pair = "pair" /\ res'.ok /\ NoCrossing)
     => (/\ res'.messages = <<>>
         /\ UNCHANGED <<orders, ticks, order_by_price, order_by_bidder>>
         /\ DOMAIN rewards' = DOMAIN rewards \cup {REWARD_WALLET, res'.sender}
         /\ \A a \in DOMAIN rewards' : rewards'[a] = process_reward(rewards, a))]_vars

\* excecute_pair has run on a book with both sides filled and the best buy
\* tick below the best sell tick: nothing matched, the rows are stored
C13_Witness ==
  /\ res.op = "execute_orderbook_pair" /\ res.ok /\ res.pair = "pair"
  /\ res.detail.fills = <<>> /\ res.detail.sweeps = <<>> /\ res.detail.stuff = <<>>
  /\ StoredTicks(Buy) # {} /\ StoredTicks(Sell) # {}
  /\ NoCrossing
  /\ res.messages = <<>>
  /\ rewards = [a \in {REWARD_WALLET, res.sender} |-> NoReward]

\* a successful submit_order on either pair
SubmitDone == res.op = "submit_order" /\ res.ok

\* C14: last_order_id starts at 0, grows by exactly 1 on every successful
\* submit_order, on whichever pair, and is changed by nothing else; the new
\* order takes the new value as its id, so no id is given twice and after n
\* submits last_order_id is n.
C14_LastOrderIdCounts ==
  [][/\ IF SubmitDone'
        THEN /\ last_order_id' = last_order_id + 1
             /\ res'.order.order_id = last_order_id'
             /\ res'.order.order_id \notin (DOMAIN orders \cup DOMAIN other_book.st.orders)
        ELSE last_order_id' = last_order_id
     /\ DOMAIN orders' \cap DOMAIN other_book'.st.orders = {}
     /\ (DOMAIN orders' \cup DOMAIN other_book'.st.orders) \subseteq 1..last_order_id'
     /\ \A i \in DOMAIN orders' : orders'[i].order_id = i
     /\ \A i \in DOMAIN other_book'.st.orders : other_book'.st.orders[i].order_id = i]_vars

\* three submits spread over the two pairs, counted from 0: both pairs hold
\* orders and the last one got id 3
C14_Witness ==
  /\ SubmitDone
  /\ last_order_id = 3
  /\ res.order.order_id = 3
  /\ Cardinality(DOMAIN orders) + Cardinality(DOMAIN other_book.st.orders) = 3
  /\ DOMAIN orders # {}
  /\ DOMAIN other_book.st.orders # {}

\* the in-memory orders as the fills of the last excecute_pair left them
FilledOrders == {Fills[n].buy_after : n \in DOMAIN Fills} \cup {Fills[n].sell_after : n \in DOMAIN Fills}

\* the order is in the order table or in an index of the pair
Listed(order) ==
  \/ order.order_id \in DOMAIN orders
  \/ \E e \in order_by_price : e[2] = order.order_id
  \/ \E e \in order_by_bidder : e[2] = order.order_id

\* C15: every order of the order table is Open or PartialFilled with
\* filled_offer_amount < offer_amount and filled_ask_amount < ask_amount; an
\* order that a fill brought to filled_offer = offer or filled_ask = ask is
\* Fulfilled and neither in the order table nor in an index.
C15_StoredOrdersAreLive ==
  /\ \A i \in DOMAIN orders :
       /\ orders[i].status \in {Open, PartialFilled}
       /\ orders[i].filled_offer_amount < orders[i].offer_amount
       /\ orders[i].filled_ask_amount < orders[i].ask_amount
  /\ LastWasExecute =>
       \A o \in FilledOrders :
         (o.filled_offer_amount = o.offer_amount \/ o.filled_ask_amount = o.ask_amount)
           => (o.status = Fulfilled /\ ~Listed(o))

\* the rows under PREFIX_ORDER_BY_DIRECTION, which query_orders scans for a
\* direction: store_order writes rows under PREFIX_ORDER,
\* PREFIX_TICK, PREFIX_ORDER_BY_PRICE and PREFIX_ORDER_BY_BIDDER only, and no
\* other function writes under this prefix
order_by_direction == {}

\* the index entries an order of the order table has under its own price,
\* bidder and direction
OwnEntries(order) ==
  [price |-> <<price_key(order), order.order_id>>,
   bidder |-> <<order.bidder_addr, order.order_id>>,
   direction |-> <<order.direction, order.order_id>>]

\* C16: every entry of the by-price, by-bidder and by-direction indexes
\* names an id of the order table, and every order of the order table has
\* its entry in each index under its own price, bidder and direction.
C16_IndexesMatchTable ==
  /\ \A e \in order_by_price : e[2] \in DOMAIN orders
  /\ \A e \in order_by_bidder : e[2] \in DOMAIN orders
  /\ \A e \in order_by_direction : e[2] \in DOMAIN orders
  /\ \A i \in DOMAIN orders :
       /\ OwnEntries(orders[i]).price \in order_by_price
       /\ OwnEntries(orders[i]).bidder \in order_by_bidder
       /\ OwnEntries(orders[i]).direction \in order_by_direction

\* the leg of the i-th fill in an asset: the amount L the fees are taken
\* from and the relayer fee before capping
LegAmount(f, asset) == IF asset = "quote" THEN f.sell_ask_amount ELSE f.sell_offer_amount

LegRelay(f, asset) ==
  IF asset = "quote" THEN (RELAY_FEE * f.match_price) \div DECIMAL_FRACTIONAL ELSE RELAY_FEE

\* C17: on every fill leg of amount L the commission is min(floor(L/1000), L),
\* the relayer fee is min(300, L - commission) on the base leg and
\* min(floor(300 * match_price), L - commission) on the quote leg, the
\* payout is L - commission - relayer fee and is not negative: the three
\* add up to L.
C17_LegFeesPartition ==
  \A n \in DOMAIN Fills : \A asset \in {"base", "quote"} :
    LET f == Fills[n]
        L == LegAmount(f, asset)
        commission == f.reward_fee[asset]
        fee == f.relayer_fee[asset]
        payout == f.payout[asset]
    IN /\ commission = Min(L \div 1000, L)
       /\ fee = Min(LegRelay(f, asset), L - commission)
       /\ payout = L - commission - fee
       /\ commission >= 0 /\ fee >= 0 /\ payout >= 0
       /\ commission + fee + payout = L

\* both legs too small for the whole relayer fee: 1200 quote for 114 base
\* at price 10.5 leaves a commission of 1 quote, the relayer takes the rest
\* of both legs and the payouts are 0
C17_Witness ==
  /\ res.op = "fee_legs"
  /\ Fills[1].sell_offer_amount < RELAY_FEE
  /\ Fills[1].relayer_fee.base = Fills[1].sell_offer_amount - Fills[1].reward_fee.base
  /\ Fills[1].payout.base = 0
  /\ Fills[1].reward_fee.quote > 0
  /\ Fills[1].relayer_fee.quote = Fills[1].sell_ask_amount - Fills[1].reward_fee.quote
  /\ Fills[1].payout.quote = 0

\* what the Executor of address e accrued in an asset up to the end of the
\* last excecute_pair call: what its row held before the call, the
\* commissions and swept residuals if it is the reward wallet, the relayer
\* fees if it is the caller
Accrued(e, asset) ==
  LET carried == IF e = REWARD_WALLET THEN res.detail.rewards_before[1][asset]
                 ELSE res.detail.rewards_before[2][asset]
      commissions == SumSeq([n \in DOMAIN Fills |-> Fills[n].reward_fee[asset]])
      swept == SumSeq([n \in DOMAIN res.detail.sweeps |->
                         IF res.detail.sweeps[n].asset = asset
                         THEN res.detail.sweeps[n].amount ELSE 0])
      relayed == SumSeq([n \in DOMAIN Fills |-> Fills[n].relayer_fee[asset]])
  IN carried + (IF e = REWARD_WALLET THEN commissions + swept ELSE 0)
             + (IF e = res.sender THEN relayed ELSE 0)

\* the transfers of the last call to an address in an asset
TransfersTo(e, asset) ==
  SelectSeq(res.messages, LAMBDA t : t.to = e /\ t.asset = asset)

\* C18: after every excecute_pair, for the Executor of the reward wallet and
\* of the caller and each asset: an accrued amount of 1,000,000 or more is
\* paid out whole in exactly one transfer and the stored slot is 0; a
\* smaller one is not paid and is stored; so every stored slot of the two
\* is below 1,000,000.
C18_RewardPayoutThreshold ==
  (LastWasExecute /\ res.pair = "pair") =>
    \A e \in {REWARD_WALLET, res.sender} : \A asset \in {"base", "quote"} :
      /\ IF Accrued(e, asset) >= REWARD_PAYOUT
         THEN /\ Len(TransfersTo(e, asset)) = 1
              /\ TransfersTo(e, asset)[1].amount = Accrued(e, asset)
              /\ rewards[e][asset] = 0
         ELSE /\ TransfersTo(e, asset) = <<>>
              /\ rewards[e][asset] = Accrued(e, asset)
      /\ rewards[e][asset] < REWARD_PAYOUT

\* the net payouts of the fills of the last call to an address in an
\* asset: the quote leg pays the owner of the sell order, the base leg the
\* owner of the buy order
NetPayouts(addr, asset) ==
  SumSeq([n \in DOMAIN Fills |->
            IF (IF asset = "quote" THEN Fills[n].sell_after.bidder_addr
                ELSE Fills[n].buy_after.bidder_addr) = addr
            THEN Fills[n].payout[asset] ELSE 0])

\* C19: within one excecute_pair call at most one transfer is emitted per
\* recipient and asset, and its amount is the sum of the recipient's net
\* payouts in that asset over all fills of the call.
C19_ProceedsCoalesced ==
  (LastWasExecute /\ res.pair = "pair") =>
    \A addr \in Bidders : \A asset \in {"base", "quote"} :
      IF NetPayouts(addr, asset) > 0
      THEN /\ Len(TransfersTo(addr, asset)) = 1
           /\ TransfersTo(addr, asset)[1].amount = NetPayouts(addr, asset)
      ELSE TransfersTo(addr, asset) = <<>>

\* one buy order filled by several sell orders of one owner in one call:
\* the owner of the sells gets one quote transfer for all the fills
C19_Witness ==
  /\ LastWasExecute
  /\ Len(Fills) >= 3
  /\ \A n \in DOMAIN Fills :
       /\ Fills[n].buy = Fills[1].buy
       /\ Fills[n].sell_after.bidder_addr = Fills[1].sell_after.bidder_addr
       /\ Fills[n].payout.quote > 0
  /\ \A n, k \in DOMAIN Fills : n # k => Fills[n].sell # Fills[k].sell
  /\ Len(TransfersTo(Fills[1].sell_after.bidder_addr, "quote")) = 1

\* the residual of an order was added to the reward Executor by the last
\* call
Swept(order, asset) ==
  \E n \in DOMAIN res.detail.sweeps :
    res.detail.sweeps[n] = [order_id |-> order.order_id, asset |-> asset,
                            amount |-> lef_offer(order)]

\* what a sweep does to the order it sweeps
SweptAway(order, asset) ==
  /\ order.status = Fulfilled
  /\ ~Listed(order)
  /\ Swept(order, asset)

SubmitEffect(shape) ==
  LET id == last_order_id + 1
      k == price_key(NewOrder(shape, id))
  IN /\ last_order_id' = id
     /\ id \notin DOMAIN orders
     /\ DOMAIN orders' = DOMAIN orders \cup {id}
     /\ orders'[id] = [order_id |-> id, status |-> Open,
                       filled_offer_amount |-> 0, filled_ask_amount |-> 0,
                       offer_amount |-> shape.offer, ask_amount |-> shape.ask,
                       direction |-> shape.direction, bidder_addr |-> shape.sender]
     /\ \A i \in DOMAIN orders : orders'[i] = orders[i]
     /\ DOMAIN ticks' = DOMAIN ticks \cup {k}
     /\ ticks'[k] = LoadOrDefault(ticks, k) + 1
     /\ \A t \in DOMAIN ticks \ {k} : ticks'[t] = ticks[t]
     /\ <<k, id>> \notin order_by_price
     /\ order_by_price' = order_by_price \cup {<<k, id>>}
     /\ <<shape.sender, id>> \notin order_by_bidder
     /\ order_by_bidder' = order_by_bidder \cup {<<shape.sender, id>>}
     /\ rewards' = rewards

C23_ZeroSubmitRejected ==
  [][/\ \A shape \in ZeroShapes :
          SubmitOrder(shape) =>
            /\ ~res'.ok /\ res'.error = "AssetMustNotBeZero"
            /\ UNCHANGED <<last_order_id, orderbook, orders, ticks,
                           order_by_price, order_by_bidder, rewards, custody>>
     /\ (res.error = "AssetMustNotBeZero" /\ res'.op = "submit_order" /\ res'.ok)
          => /\ res'.order.order_id = last_order_id + 1
             /\ DOMAIN orders \subseteq 1..last_order_id]_vars

\* a rejected submit on a book that holds the orders 1 and 2
C23_Witness ==
  /\ res.op = "submit_order" /\ ~res.ok /\ res.error = "AssetMustNotBeZero"
  /\ DOMAIN orders = {1, 2}
  /\ last_order_id = 2

\* what the live orders of a bidder still offered in an asset when the last
\* call started
RemainingOffers(bidder, asset) ==
  LET o == res.detail.before.st.orders
  IN SumSeq([i \in 1..last_order_id |->
               IF /\ i \in DOMAIN o
                  /\ o[i].bidder_addr = bidder
                  /\ offer_asset(o[i].direction) = asset
               THEN lef_offer(o[i]) ELSE 0])

\* what the last call transferred to an address in an asset
Received(e, asset) ==
  SumSeq([n \in DOMAIN TransfersTo(e, asset) |-> TransfersTo(e, asset)[n].amount])

\* C24: after remove_pair by the admin on an order book with live orders,
\* every bidder has received back, in each asset, the remaining offers of
\* their live orders.
C24_RemovePairRefunds ==
  (res.op = "remove_orderbook_pair" /\ res.ok) =>
    \A bidder \in Bidders : \A asset \in {"base", "quote"} :
      Received(bidder, asset) = RemainingOffers(bidder, asset)

AdminOps == {"remove_stuff_order", "execute_remove_price", "execute_remove_status"}

\* the address an admin operation is reserved for
AdminOf(op) == IF op = "remove_orderbook_pair" THEN ConfigAdmin ELSE ADMIN_WALLET

\* the call that ends a step was an admin operation of another sender
ByOtherSender ==
  /\ res'.op \in AdminOps \cup {"remove_orderbook_pair"}
  /\ res'.sender # AdminOf(res'.op)

\* C25 as stated: the three operations of the hard-coded admin and
\* remove_pair of the configured admin return Unauthorized to every other
\* sender and leave storage unchanged.
C25_OthersUnauthorized ==
  [][ByOtherSender => (res'.error = "Unauthorized" /\ Untouched)]_vars

\* C25: the admin operations succeed for their admin only; for every other
\* sender they fail and leave storage unchanged, with Unauthorized, except
\* that remove_stuff_order fails with not-found when the pair has no order
\* book or the id has no order, which it reads before it tests the sender.
C25_OthersRejected ==
  [][/\ (res'.op \in AdminOps \cup {"remove_orderbook_pair"} /\ res'.ok /\ res' # res)
          => res'.sender = AdminOf(res'.op)
     /\ ByOtherSender =>
          /\ ~res'.ok
          /\ Untouched
          /\ res'.error =
               IF /\ res'.op = "remove_stuff_order"
                  /\ (orderbook = NoOrderBook \/ res'.order.order_id \notin DOMAIN orders)
               THEN "NotFound" ELSE "Unauthorized"]_vars

\* an order's own bidder called remove_stuff_order for it and was refused
C25_Witness ==
  /\ res.op = "remove_stuff_order" /\ res.error = "Unauthorized"
  /\ res.order.order_id \in DOMAIN orders
  /\ res.sender = orders[res.order.order_id].bidder_addr
  /\ res.sender # ConfigAdmin

\* C27: excecute_pair and cancel_order called with asset_infos of no
\* registered order book (never created, or removed) fail with a not-found
\* error, emit no transfer and write no order, index, tick counter or
\* Executor row.
C27_UnknownPairNotFound ==
  [][(/\ res'.op \in {"execute_orderbook_pair", "cancel_order"}
      /\ res' # res
      /\ (res'.pair = "unknown" \/ (res'.pair = "pair" /\ orderbook = NoOrderBook)))
       => /\ ~res'.ok /\ res'.error = "NotFound" /\ res'.messages = <<>>
          /\ Untouched]_vars

\* cancel_order of a live order by its bidder after the order book was
\* removed
C27_Witness ==
  /\ res.op = "cancel_order" /\ res.error = "NotFound" /\ res.pair = "pair"
  /\ orderbook = NoOrderBook
  /\ res.order.order_id \in DOMAIN orders
  /\ res.sender = orders[res.order.order_id].bidder_addr

LastWasQuery == res.op = "orders"

\* the ids of the page the last query returned
PageIds == [n \in DOMAIN res.order.orders |-> res.order.orders[n].order_id]

\* C26: an orders query returns at most min(limit, 30) orders, and at most
\* 10 without limit; ascending with start_after = k it returns only ids
\* above k in ascending order, descending with start_after = k only ids
\* below k in descending order.
C26_OrdersPaging ==
  LastWasQuery =>
    LET q == res.order
        ids == PageIds
    IN /\ Len(ids) <= (IF q.limit = NoLimit THEN 10 ELSE Min(q.limit, 30))
       /\ (q.order_by = "Ascending" /\ q.start_after # NoStart) =>
            /\ \A n \in DOMAIN ids : ids[n] > q.start_after
            /\ \A n \in 1..(Len(ids) - 1) : ids[n] < ids[n + 1]
       /\ (q.order_by = "Descending" /\ q.start_after # NoStart) =>
            /\ \A n \in DOMAIN ids : ids[n] < q.start_after
            /\ \A n \in 1..(Len(ids) - 1) : ids[n] > ids[n + 1]

\* C28: deprecate_staking_token by the owner on a registered asset that was
\* not migrated succeeds; it sets total_bond_amount to 0, keeps reward_index
\* and pending_reward, records migration_params with the reward_index of
\* that moment and the previous staking token, and makes the new token the
\* staking token.
C28_DeprecateResetsBond ==
  [][\A asset \in Assets, token \in Tokens :
       (/\ asset \in DOMAIN pool_infos
        /\ pool_infos[asset].migration_params = NoMigration
        /\ DeprecateStakingToken(Owner, asset, token))
         => /\ res'.ok
            /\ pool_infos'[asset].total_bond_amount = 0
            /\ pool_infos'[asset].reward_index = pool_infos[asset].reward_index
            /\ pool_infos'[asset].pending_reward = pool_infos[asset].pending_reward
            /\ pool_infos'[asset].migration_params.index_snapshot
                 = pool_infos[asset].reward_index
            /\ pool_infos'[asset].migration_params.deprecated_staking_token
                 = pool_infos[asset].staking_token
            /\ pool_infos'[asset].staking_token = token]_vars

\* a pool that had 100 bonded and a reward index of 1 was deprecated
C28_Witness ==
  /\ res.op = "deprecate_staking_token" /\ res.ok
  /\ pool_infos["asset"].total_bond_amount = 0
  /\ pool_infos["asset"].reward_index = DECIMAL_FRACTIONAL
  /\ pool_infos["asset"].migration_params.index_snapshot = DECIMAL_FRACTIONAL
  /\ pool_infos["asset"].migration_params.deprecated_staking_token = "staking"
  /\ pool_infos["asset"].staking_token = "new_staking"

\* the pool of the asset was migrated
Migrated(asset) ==
  /\ asset \in DOMAIN pool_infos
  /\ pool_infos[asset].migration_params # NoMigration

\* once migrated, the pool keeps its migration_params and every further
\* deprecate_staking_token for the asset fails
MigratedOnce(asset) ==
  /\ pool_infos'[asset].migration_params = pool_infos[asset].migration_params
  /\ \A sender \in {Owner, "addr"}, token \in Tokens :
       DeprecateStakingToken(sender, asset, token) => ~res'.ok

QuoteAmount(ls, lb, m) == Min(lb, (ls * m) \div DECIMAL_FRACTIONAL)

BaseAmount(ls, lb, m) ==
  Min((QuoteAmount(ls, lb, m) * DECIMAL_FRACTIONAL) \div m, ls)

Skips == res.detail.skips

\* C30: for each pairwise fill of sell s and buy b at match price m, with
\* remaining offers ls and lb, q = min(lb, floor(ls x m)) and
\* a = min(floor(q / m), ls): if q = 0 or a = 0 the pair is passed over and
\* neither order changes; otherwise s.filled_ask and b.filled_offer grow by
\* exactly q and s.filled_offer and b.filled_ask by exactly a.
C30_FillAmounts ==
  LastWasExecute =>
    /\ \A n \in DOMAIN Fills :
         LET f == Fills[n]
             q == QuoteAmount(lef_offer(f.sell_before), lef_offer(f.buy_before),
                              f.match_price)
             a == BaseAmount(lef_offer(f.sell_before), lef_offer(f.buy_before),
                             f.match_price)
         IN /\ q > 0 /\ a > 0
            /\ f.sell_after.filled_ask_amount = f.sell_before.filled_ask_amount + q
            /\ f.buy_after.filled_offer_amount = f.buy_before.filled_offer_amount + q
            /\ f.sell_after.filled_offer_amount = f.sell_before.filled_offer_amount + a
            /\ f.buy_after.filled_ask_amount = f.buy_before.filled_ask_amount + a
    /\ \A n \in DOMAIN Skips :
         LET k == Skips[n]
             q == QuoteAmount(lef_offer(k.sell), lef_offer(k.buy), k.match_price)
             a == BaseAmount(lef_offer(k.sell), lef_offer(k.buy), k.match_price)
         IN /\ q = 0 \/ a = 0
            /\ Fills = <<>> =>
                 /\ k.buy.order_id \in DOMAIN orders /\ orders[k.buy.order_id] = k.buy
                 /\ k.sell.order_id \in DOMAIN orders /\ orders[k.sell.order_id] = k.sell

\* a buy 1000/1000 against a sell 400/400: the sell is Fulfilled, the buy
\* PartialFilled with 400 of each amount filled
C30_Witness ==
  /\ LastWasExecute
  /\ \E n \in DOMAIN Fills :
       /\ Fills[n].buy_before.offer_amount = 1000
       /\ Fills[n].buy_before.filled_offer_amount = 0
       /\ Fills[n].sell_before.offer_amount = 400
       /\ Fills[n].sell_after.status = Fulfilled
       /\ Fills[n].buy_after.status = PartialFilled
       /\ Fills[n].buy_after.filled_offer_amount = 400
       /\ Fills[n].buy_after.filled_ask_amount = 400
       /\ Fills[n].sell_after.filled_offer_amount = 400
       /\ Fills[n].sell_after.filled_ask_amount = 400

\* C31: when the buy tick equals the sell tick (match_one_price), every fill
\* between orders of the two ticks executes at the common tick price, which
\* is the buy order's own price and the sell order's own price.
C31_OnePriceAtTick ==
  LastWasExecute =>
    \A n \in DOMAIN Fills :
      Fills[n].match_one_price =>
        /\ Fills[n].buy_tick = Fills[n].sell_tick
        /\ Fills[n].match_price = Fills[n].buy_tick
        /\ Fills[n].match_price = Fills[n].buy_price
        /\ Fills[n].match_price = Fills[n].sell_price

\* C33: every pairwise fill respects both limit prices: the match price is
\* at least the sell order's own unrounded price and at most the buy
\* order's own unrounded price, also when the two share a tick.
C33_WithinLimitPrices ==
  LastWasExecute =>
    \A n \in DOMAIN Fills :
      /\ Fills[n].sell_price <= Fills[n].match_price
      /\ Fills[n].match_price <= Fills[n].buy_price

\* the orders of the pair that rest at the tick of price p and have the
\* direction asked for
RestingAt(p, direction) ==
  {i \in DOMAIN orders :
     /\ price_key(orders[i]) = to_string_round(p, FLOATING_ROUND)
     /\ direction \in {"None", orders[i].direction}}

\* C32: the orders query with filter Price(p) returns exactly the live
\* orders of the pair that rest at tick p, restricted to the direction and
\* the page limit; it is non-empty whenever a live order rests at p.
C32_PriceQueryListsTick ==
  LastWasQuery =>
    LET q == res.order
        ids == {q.orders[n].order_id : n \in DOMAIN q.orders}
    IN /\ res.ok
       /\ ids \subseteq RestingAt(q.price, q.direction)
       /\ Cardinality(ids) = Min(Cardinality(RestingAt(q.price, q.direction)),
                                 EffLimit(q.limit))
       /\ RestingAt(q.price, q.direction) # {} => ids # {}

\* fill_order marked the order Fulfilled, and removed it
FulfilledByFill(order) ==
  \/ order.filled_offer_amount = order.offer_amount
  \/ order.filled_ask_amount = order.ask_amount

\* no fill of the call is applied to an order that is already Fulfilled or
\* no longer in the order table
NoFillAfterFulfilled ==
  \A n \in DOMAIN Fills :
    /\ Fills[n].buy_before.status # Fulfilled /\ Fills[n].buy_stored
    /\ Fills[n].sell_before.status # Fulfilled /\ Fills[n].sell_stored

\* remove_order is applied once at most: the dust sweep does not remove an
\* order its fill has removed
NoSecondRemove ==
  \A n \in DOMAIN Fills :
    /\ ~(FulfilledByFill(Fills[n].buy_after) /\ Fills[n].buy_swept)
    /\ ~(FulfilledByFill(Fills[n].sell_after) /\ Fills[n].sell_swept)

\* an order a fill or a sweep of the call has marked Fulfilled is not in the
\* order table after the call
NotWrittenBack ==
  \A n \in DOMAIN Fills :
    /\ Fills[n].buy_after.status = Fulfilled => Fills[n].buy \notin DOMAIN orders
    /\ Fills[n].sell_after.status = Fulfilled => Fills[n].sell \notin DOMAIN orders

\* C34: within one excecute_pair call, once an order has been marked
\* Fulfilled or removed from the order table, no further fill is applied to
\* it, it is not written back to the order table, and remove_order is not
\* applied to it a second time.
C34_FulfilledIsFinal ==
  LastWasExecute => NoFillAfterFulfilled /\ NotWrittenBack /\ NoSecondRemove

\* the total of the transfers of the last call to an address in an asset
PaidTo(e, asset) ==
  SumSeq([n \in DOMAIN TransfersTo(e, asset) |-> TransfersTo(e, asset)[n].amount])

\* C35: when the caller of excecute_pair is the reward wallet itself, the
\* one Executor row stored for the address after the call equals its
\* balance before plus all commission, relayer fees and dust accrued in the
\* call minus the amounts transferred out, and at most one reward transfer
\* per asset is emitted.
C35_RewardWalletAsRelayer ==
  (LastWasExecute /\ res.pair = "pair" /\ res.sender = REWARD_WALLET) =>
    \A asset \in {"base", "quote"} :
      /\ rewards[REWARD_WALLET][asset] =
           Accrued(REWARD_WALLET, asset) - PaidTo(REWARD_WALLET, asset)
      /\ Len(TransfersTo(REWARD_WALLET, asset)) <= 1

\* a cancel_order call on the pair by the bidder of an order that is in the
\* order table
CancelByBidder ==
  /\ res'.op = "cancel_order" /\ res'.pair = "pair"
  /\ res'.order.order_id \in DOMAIN orders
  /\ res'.sender = orders[res'.order.order_id].bidder_addr

\* C36: in every reachable state the bidder of any order present in the
\* order table can cancel it successfully and receives offer_amount -
\* filled_offer_amount, also after remove_pair has deleted the order book
\* row of the pair.
C36_BidderCanAlwaysCancel ==
  [][CancelByBidder =>
       /\ res'.ok
       /\ res'.order.order_id \notin DOMAIN orders'
       /\ Paid(res'.messages, offer_asset(orders[res'.order.order_id].direction))
            = lef_offer(orders[res'.order.order_id])]_vars

RECURSIVE SumOver(_, _)
\* the sum of the values of a function over a set of its arguments
SumOver(f, D) ==
  IF D = {} THEN 0
  ELSE LET x == CHOOSE y \in D : TRUE IN f[x] + SumOver(f, D \ {x})

\* the remaining offers of the live orders that offer the asset
LiveOffers(asset) ==
  SumOver([i \in DOMAIN orders |-> lef_offer(orders[i])],
          {i \in DOMAIN orders : offer_asset(orders[i].direction) = asset})

\* the balances of all Executor rows in the asset
ExecutorBalances(asset) ==
  SumOver([e \in DOMAIN rewards |-> rewards[e][asset]], DOMAIN rewards)

\* C37: in every state reachable by submit_order, cancel_order and
\* excecute_pair, and for each asset, the amount in custody (deposits minus
\* transfers) is at least the remaining offers of the live orders offering
\* the asset plus the balances of all Executor rows in it.
C37_CustodyCoversClaims ==
  \A asset \in {"base", "quote"} :
    custody[asset] >= LiveOffers(asset) + ExecutorBalances(asset)

\* the orders the fills of the last call touched, as the last fill that
\* touched them left them
LastFilled ==
  {o \in {Fills[n].buy_after : n \in DOMAIN Fills}
           \cup {Fills[n].sell_after : n \in DOMAIN Fills} :
     \A n \in DOMAIN Fills :
       /\ Fills[n].buy = o.order_id =>
            Fills[n].buy_after.filled_offer_amount <= o.filled_offer_amount
       /\ Fills[n].sell = o.order_id =>
            Fills[n].sell_after.filled_offer_amount <= o.filled_offer_amount}

\* what the dust sweeps of the last call took from an order
SweptFrom(order_id) ==
  SumSeq([n \in DOMAIN res.detail.sweeps |->
            IF res.detail.sweeps[n].order_id = order_id
            THEN res.detail.sweeps[n].amount ELSE 0])

\* C38: every order that leaves the book is fully accounted for: its
\* offer_amount equals the amounts drawn from it by fills plus the amount
\* refunded on cancel plus the amount swept to the reward account as dust;
\* no remaining offer of an order removed by the matcher stays in custody.
C38_RemovedOrdersAccounted ==
  /\ LastWasExecute =>
       \A o \in LastFilled :
         o.order_id \notin DOMAIN orders =>
           o.offer_amount = o.filled_offer_amount + SweptFrom(o.order_id)
  /\ LastWasCancel =>
       res.order.offer_amount =
         res.order.filled_offer_amount
           + Paid(res.messages, offer_asset(res.order.direction))

\* C39: submit_order, cancel_order and excecute_pair on one pair leave the
\* orders, indexes, tick counters and Executor rows of every other pair
\* unchanged; the only state shared between pairs is last_order_id.
C39_OtherPairUntouched ==
  [][/\ res'.pair = "other" =>
          UNCHANGED <<orders, ticks, order_by_price, order_by_bidder, rewards, custody>>
     /\ res'.pair = "pair" => UNCHANGED other_book
     /\ last_order_id' # last_order_id =>
          /\ res'.op = "submit_order" /\ res'.ok
          /\ res'.order.order_id = last_order_id + 1]_vars

\* both pairs hold an order of each direction, ids 1 to 3 went to the two
\* pairs in turn, and the last call matched the orders of the second pair
\* while those of the first pair stayed
C39_Witness ==
  /\ res.pair = "other" /\ res.op = "execute_orderbook_pair" /\ res.ok
  /\ res.detail.fills # <<>>
  /\ DOMAIN orders # {}
  /\ rewards = EmptyFn
  /\ other_book.rewards # EmptyFn

\* the last call was an excecute_pair that made no fill
Quiescent == LastWasExecute /\ Fills = <<>>

\* C40: when excecute_pair is called repeatedly on a finite book with no
\* submit in between and a limit that covers all ticks and orders, then
\* after finitely many calls a further call makes no fill, and in that
\* quiescent state no live buy order rests at a tick at or above the tick
\* of a live sell order.  A call that makes no fill changes no order, so
\* every later call repeats it: the state after such a call is the
\* quiescent state, and the property is stated on it.
C40_RepeatedMatchingSettles == Quiescent => NoCrossing
====
